---- MODULE Spec2Model ----
(***************************************************************************)
(* Model of the background dispatcher of the LLM labeler extension         *)
(* (src/src/background/index.ts): the reply extractor, the batch           *)
(* reconciler, the result-recording writes, the dispatch loop and the      *)
(* recovery procedure, together with the side panel's retry action.        *)
(*                                                                         *)
(* Text is modelled as a sequence of tokens.  The structural characters    *)
(* the scanners look at are tokens of their own: "[", "]", "{", "}", ",",  *)
(* the double quote, the backslash, a newline "NL", a code fence "FENCE" and*)
(* the word "json".  "w" is a run of other characters.  A token "k:v"      *)
(* (TokKey, TokVal) is the text of one JSON member with a scalar value,    *)
(* for example "id:1" is the text  "id":"1" : its quotes are balanced and  *)
(* it holds no bracket, so the scanners pass over it as over one           *)
(* character.  Sample ids are the naturals 1..NumItems (String(id) of the  *)
(* source is the identity on them), 0 is the empty string as an id.        *)
(***************************************************************************)
EXTENDS Integers, Sequences, FiniteSets, TLC

NumItems == 3

ItemIds == 1..NumItems

QUOTE == "\""

BSLASH == "\\"

NL == "NL"

FENCE == "FENCE"

JSONWORD == "json"

\* JavaScript null / undefined where a token sequence is expected: the
\* scanners never return an empty slice, and an empty string is falsy.
Null == <<>>

----------------------------------------------------------------------------
(* Tokens that stand for one JSON member "key":value.                      *)

MemberTokens ==
  { "id:1", "id:2", "id:3", "id:4", "id:9", "sampleId:2",
    "out:a", "out:b", "out:c", "text:t", "ok:false", "ok:true", "ok:null" }

IsMember(tok) == tok \in MemberTokens

TokKey(tok) ==
  CASE tok \in {"id:1", "id:2", "id:3", "id:4", "id:9"} -> "id"
    [] tok = "sampleId:2" -> "sampleId"
    [] tok \in {"out:a", "out:b", "out:c"} -> "output_text"
    [] tok = "text:t" -> "text"
    [] tok \in {"ok:false", "ok:true", "ok:null"} -> "ok"

\* the value of the member; the value of an ok member is kept as its JSON
\* literal
TokVal(tok) ==
  CASE tok = "id:1" -> 1
    [] tok = "id:2" -> 2
    [] tok = "id:3" -> 3
    [] tok = "id:4" -> 4
    [] tok = "id:9" -> 9
    [] tok = "sampleId:2" -> 2
    [] tok = "out:a" -> <<"a">>
    [] tok = "out:b" -> <<"b">>
    [] tok = "out:c" -> <<"c">>
    [] tok = "text:t" -> <<"t">>
    [] tok = "ok:false" -> "false"
    [] tok = "ok:true" -> "true"
    [] tok = "ok:null" -> "null"

TextKeys == {"output_text", "output", "text", "completion"}

----------------------------------------------------------------------------
(* String helpers.                                                         *)

IsSpace(tok) == tok = NL

RECURSIVE TrimLeft(_)
TrimLeft(s) ==
  IF s # <<>> /\ IsSpace(Head(s)) THEN TrimLeft(Tail(s)) ELSE s

RECURSIVE TrimRight(_)
TrimRight(s) ==
  IF s # <<>> /\ IsSpace(s[Len(s)]) THEN TrimRight(SubSeq(s, 1, Len(s) - 1)) ELSE s

Trim(s) == TrimRight(TrimLeft(s))

\* s.slice(from) with a 1-based first index
SliceFrom(s, from) == SubSeq(s, from, Len(s))

\* s.indexOf(sub), 1-based; 0 when sub does not occur
IndexOfSub(s, sub) ==
  LET hits == { i \in 1..(Len(s) - Len(sub) + 1) : SubSeq(s, i, i + Len(sub) - 1) = sub }
  IN IF hits = {} THEN 0 ELSE CHOOSE i \in hits : \A j \in hits : i <= j

\* index of the first token equal to tok at or after from; 0 when none
IndexOfTok(s, tok, from) ==
  LET hits == { i \in from..Len(s) : s[i] = tok }
  IN IF hits = {} THEN 0 ELSE CHOOSE i \in hits : \A j \in hits : i <= j

\* s.lastIndexOf(tok), 1-based; 0 when none
LastIndexOfTok(s, tok) ==
  LET hits == { i \in 1..Len(s) : s[i] = tok }
  IN IF hits = {} THEN 0 ELSE CHOOSE i \in hits : \A j \in hits : i >= j

----------------------------------------------------------------------------
(* unwrapJsonish: strip a code fence or a leading json marker.             *)

\* fenced?.[1]: the group between the fence at open (0: no fence) and the
\* next one, "" when there is none
fencedGroup(raw, open, afterTag) ==
  IF open = 0 \/ IndexOfTok(raw, FENCE, afterTag) = 0 THEN <<>>
  ELSE TrimLeft(SubSeq(raw, afterTag, IndexOfTok(raw, FENCE, afterTag) - 1))

\* the text without a leading json marker that precedes a bracket
withoutMarker(trimmed, rest) ==
  IF Len(trimmed) >= 2 /\ trimmed[1] = JSONWORD /\ rest # <<>> /\ rest[1] \in {"[", "{"}
    THEN rest
  ELSE trimmed

unwrapFrom(raw, group, trimmed) ==
  IF group # <<>> THEN Trim(group)
  ELSE withoutMarker(trimmed, IF trimmed = <<>> THEN <<>> ELSE TrimLeft(Tail(trimmed)))

\* (?:json)? then \s* then the lazy group up to the next fence
unwrapAt(raw, open) ==
  unwrapFrom(raw,
             fencedGroup(raw, open,
                         IF open # 0 /\ open < Len(raw) /\ raw[open + 1] = JSONWORD
                         THEN open + 2 ELSE open + 1),
             Trim(raw))

unwrapJsonish(raw) ==
  IF raw = <<>> THEN <<>> ELSE unwrapAt(raw, IndexOfTok(raw, FENCE, 1))

----------------------------------------------------------------------------
(* sliceBalanced: the first balanced open...close region outside string    *)
(* literals, or Null.                                                      *)

RECURSIVE sliceBalancedFrom(_, _, _, _, _, _, _, _)
\* the loop body at index i (1-based) with the loop's four locals
sliceBalancedFrom(raw, open, close, i, start, depth, inString, escaped) ==
  IF i > Len(raw) THEN Null
  ELSE
    LET ch == raw[i] IN
    IF escaped THEN sliceBalancedFrom(raw, open, close, i + 1, start, depth, inString, FALSE)
    ELSE IF ch = BSLASH THEN sliceBalancedFrom(raw, open, close, i + 1, start, depth, inString, TRUE)
    ELSE IF ch = QUOTE THEN sliceBalancedFrom(raw, open, close, i + 1, start, depth, ~inString, FALSE)
    ELSE IF inString THEN sliceBalancedFrom(raw, open, close, i + 1, start, depth, inString, FALSE)
    ELSE IF ch = open
      THEN sliceBalancedFrom(raw, open, close, i + 1,
                             IF start = 0 THEN i ELSE start, depth + 1, inString, FALSE)
    ELSE IF ch = close /\ depth > 0
      THEN (IF depth - 1 = 0 THEN SubSeq(raw, start, i)
            ELSE sliceBalancedFrom(raw, open, close, i + 1, start, depth - 1, inString, FALSE))
    ELSE sliceBalancedFrom(raw, open, close, i + 1, start, depth, inString, FALSE)

sliceBalanced(raw, open, close) ==
  sliceBalancedFrom(raw, open, close, 1, 0, 0, FALSE, FALSE)

----------------------------------------------------------------------------
(* JSON.parse on token text.  Values are tagged: an object carries its     *)
(* members m (a function on its keys), an array its elements e.  The       *)
(* grammar covered is the one the token alphabet can spell with member     *)
(* tokens: objects of scalar members, and arrays (nested to any depth) of  *)
(* objects and arrays.  Any other text throws (JFail).                     *)

NoMembers == [k \in {} |-> 0]

\* a thrown SyntaxError
JFail == [t |-> "fail", m |-> NoMembers, keys |-> <<>>, e |-> <<>>]

\* null / undefined where a JSON value is expected
JNull == [t |-> "null", m |-> NoMembers, keys |-> <<>>, e |-> <<>>]

\* an object: its members and its keys in insertion order
JObj(m, keys) == [t |-> "obj", m |-> m, keys |-> keys, e |-> <<>>]

JArr(e) == [t |-> "arr", m |-> NoMembers, keys |-> <<>>, e |-> e]

\* a string (an entry of the line-split tier)
JStr(text) == [t |-> "str", m |-> NoMembers, keys |-> <<>>, e |-> text]

StripSpace(s) == SelectSeq(s, LAMBDA tok : ~IsSpace(tok))

\* the members of  { m , m , ... }  given the text between the braces
IsMemberList(inner) ==
  \/ inner = <<>>
  \/ /\ Len(inner) % 2 = 1
     /\ \A i \in 1..Len(inner) :
          IF i % 2 = 1 THEN IsMember(inner[i]) ELSE inner[i] = ","

\* duplicate keys: the last member wins, as in JSON.parse
MembersOf(inner) ==
  LET idx == { i \in 1..Len(inner) : IsMember(inner[i]) }
      keys == { TokKey(inner[i]) : i \in idx }
  IN [ k \in keys |->
         LET last == CHOOSE i \in idx :
                       /\ TokKey(inner[i]) = k
                       /\ \A j \in idx : TokKey(inner[j]) = k => j <= i
         IN TokVal(inner[last]) ]

RECURSIVE KeyOrderFrom(_, _, _)
KeyOrderFrom(inner, i, seen) ==
  IF i > Len(inner) THEN <<>>
  ELSE IF IsMember(inner[i]) /\ TokKey(inner[i]) \notin seen
    THEN <<TokKey(inner[i])>> \o KeyOrderFrom(inner, i + 1, seen \cup {TokKey(inner[i])})
  ELSE KeyOrderFrom(inner, i + 1, seen)

\* the keys in the order of their first occurrence (the insertion order)
KeyOrder(inner) == KeyOrderFrom(inner, 1, {})

RECURSIVE SplitTop(_, _, _, _)
\* the pieces of s between its commas at bracket depth 0
SplitTop(s, i, depth, cur) ==
  IF i > Len(s) THEN <<cur>>
  ELSE IF s[i] = "," /\ depth = 0 THEN <<cur>> \o SplitTop(s, i + 1, 0, <<>>)
  ELSE SplitTop(s, i + 1,
                IF s[i] \in {"[", "{"} THEN depth + 1
                ELSE IF s[i] \in {"]", "}"} THEN depth - 1 ELSE depth,
                Append(cur, s[i]))

RECURSIVE ParseValue(_)
ParseValue(t) ==
  IF Len(t) < 2 THEN JFail
  ELSE
    LET inner == SubSeq(t, 2, Len(t) - 1) IN
    IF t[1] = "{" /\ t[Len(t)] = "}"
      THEN (IF IsMemberList(inner) THEN JObj(MembersOf(inner), KeyOrder(inner)) ELSE JFail)
    ELSE IF t[1] = "[" /\ t[Len(t)] = "]"
      THEN (IF inner = <<>> THEN JArr(<<>>)
            ELSE LET parts == SplitTop(inner, 1, 0, <<>>)
                     vals == [ i \in 1..Len(parts) |-> ParseValue(parts[i]) ]
                 IN IF \E i \in 1..Len(parts) : vals[i].t = "fail" THEN JFail
                    ELSE JArr(vals))
    ELSE JFail

JSONparse(text) == ParseValue(StripSpace(text))

IsPlainObject(v) == v.t = "obj"

IsArray(v) == v.t = "arr"

\* the member token that spells  "key":value
TokOf(key, val) ==
  CHOOSE tok \in MemberTokens : TokKey(tok) = key /\ TokVal(tok) = val

RECURSIVE JoinComma(_)
JoinComma(parts) ==
  IF parts = <<>> THEN <<>>
  ELSE IF Len(parts) = 1 THEN parts[1]
  ELSE parts[1] \o <<",">> \o JoinComma(Tail(parts))

RECURSIVE JSONstringify(_)
JSONstringify(v) ==
  IF v.t = "obj"
    THEN <<"{">> \o JoinComma([ i \in 1..Len(v.keys) |-> <<TokOf(v.keys[i], v.m[v.keys[i]])>> ])
         \o <<"}">>
  ELSE IF v.t = "arr"
    THEN <<"[">> \o JoinComma([ i \in 1..Len(v.e) |-> JSONstringify(v.e[i]) ]) \o <<"]">>
  ELSE v.e

----------------------------------------------------------------------------
(* The extraction tiers.                                                   *)

\* JSON.parse(balanced) when a balanced region was found
parseBalanced(balanced) == IF balanced # Null THEN JSONparse(balanced) ELSE JFail

\* the first of the two parses that is of the wanted kind, else null
firstOfKind(kind, direct, sliced) ==
  IF direct.t = kind THEN direct
  ELSE IF sliced.t = kind THEN sliced
  ELSE JNull

extractJSON(cleaned, open, close, kind) ==
  firstOfKind(kind, JSONparse(cleaned), parseBalanced(sliceBalanced(cleaned, open, close)))

extractJSONObject(raw) == extractJSON(unwrapJsonish(raw), "{", "}", "obj")

extractJSONArray(raw) == extractJSON(unwrapJsonish(raw), "[", "]", "arr")

RECURSIVE rawRegionsFrom(_, _)
\* one pass of the loop body shared by extractObjectList and
\* extractRawObjectEntries: the region found in slice, then the rest
rawRegionsNext(cleaned, idx, slice, balanced) ==
  IF balanced = Null THEN <<>>
  ELSE <<balanced>> \o
       rawRegionsFrom(cleaned, idx + (IndexOfSub(slice, balanced) - 1) + Len(balanced))

\* the balanced {...} regions found from idx (1-based) on
rawRegionsFrom(cleaned, idx) ==
  IF idx > Len(cleaned) THEN <<>>
  ELSE rawRegionsNext(cleaned, idx, SliceFrom(cleaned, idx),
                      sliceBalanced(SliceFrom(cleaned, idx), "{", "}"))

parsedRegions(regions) == [ i \in 1..Len(regions) |-> JSONparse(regions[i]) ]

extractObjectList(raw) ==
  SelectSeq(parsedRegions(rawRegionsFrom(unwrapJsonish(raw), 1)), IsPlainObject)

RECURSIVE SplitLines(_, _, _)
\* cleaned.split(/\r?\n/)
SplitLines(s, i, cur) ==
  IF i > Len(s) THEN <<cur>>
  ELSE IF s[i] = NL THEN <<cur>> \o SplitLines(s, i + 1, <<>>)
  ELSE SplitLines(s, i + 1, Append(cur, s[i]))

\* the trimmed regions when there are any, else the non-empty lines
regionsOrLines(cleaned, regions) ==
  IF regions # <<>> THEN [ i \in 1..Len(regions) |-> Trim(regions[i]) ]
  ELSE SelectSeq(SplitLines(cleaned, 1, <<>>), LAMBDA line : line # <<>>)

rawEntriesOf(cleaned) == regionsOrLines(cleaned, rawRegionsFrom(cleaned, 1))

extractRawObjectEntries(raw) == rawEntriesOf(unwrapJsonish(raw))

----------------------------------------------------------------------------
(* Entries.                                                                *)

\* item.sample.id || item.id : the import sets sample.id to the item's id
FallbackId(item) == item.id

\* the empty string as an id
EmptyId == 0

\* undefined as a count
NoCount == -1

LooseKeys == <<"id", "output_text", "parseMode">>

LooseEntry(id, text) ==
  JObj([id |-> id, output_text |-> text, parseMode |-> "line_split_fallback"], LooseKeys)

\* value.replace(/,\s*$/, "")
dropComma(value) ==
  IF value # <<>> /\ value[Len(value)] = "," THEN SubSeq(value, 1, Len(value) - 1) ELSE value

\* value.replace(/"\s*$/, "") with t the value without its trailing space
dropQuote(value, t) ==
  IF t # <<>> /\ t[Len(t)] = QUOTE THEN SubSeq(t, 1, Len(t) - 1) ELSE value

cleanValue(value) == dropQuote(value, TrimRight(value))

\* the first index in hits
firstHit(hits) == CHOOSE i \in hits : \A j \in hits : i <= j

\* idMatch?.[1] || fallbackId
looseId(trimmed, idHits, fallbackId) ==
  IF idHits # {} /\ TokVal(trimmed[firstHit(idHits)]) # EmptyId
    THEN TokVal(trimmed[firstHit(idHits)])
  ELSE fallbackId

\* The text after the colon of the text member at index p runs to the last
\* closing brace (or to the end).  The member token holds the quoted value;
\* the tokens that follow it in the slice stay part of the recovered text.
looseText(trimmed, p, end) ==
  TokVal(trimmed[p]) \o
    cleanValue(dropComma(Trim(IF end > p THEN SubSeq(trimmed, p + 1, end - 1)
                              ELSE SliceFrom(trimmed, p + 1))))

looseAt(trimmed, id, textHits) ==
  IF trimmed = <<>> THEN JNull
  ELSE IF textHits = {} THEN JNull
  ELSE LooseEntry(id, looseText(trimmed, firstHit(textHits), LastIndexOfTok(trimmed, "}")))

looseFrom(trimmed, fallbackId) ==
  looseAt(trimmed,
          looseId(trimmed,
                  { i \in 1..Len(trimmed) : IsMember(trimmed[i]) /\ TokKey(trimmed[i]) = "id" },
                  fallbackId),
          { i \in 1..Len(trimmed) : IsMember(trimmed[i]) /\ TokKey(trimmed[i]) \in TextKeys })

parseLooseObject(rawObj, fallbackId) == looseFrom(Trim(rawObj), fallbackId)

\* { ...entry, id: fallbackId, output_text }: the id of the entry is not read
normalizeParsedFallbackFirst(entry, fallbackId) ==
  LET m == entry.m
      output_text == IF "output_text" \in DOMAIN m THEN m["output_text"]
                     ELSE IF "output" \in DOMAIN m THEN m["output"]
                     ELSE IF "text" \in DOMAIN m THEN m["text"]
                     ELSE IF "completion" \in DOMAIN m THEN m["completion"]
                     ELSE <<>>
  IN [ k \in (DOMAIN m) \cup {"id", "output_text"} |->
         IF k = "id" THEN fallbackId
         ELSE IF k = "output_text" THEN output_text ELSE m[k] ]

\* { ...entry, id, output_text }: the members of the normalized entry
normalizeParsed(entry, fallbackId) ==
  LET m == entry.m
      id == IF "id" \in DOMAIN m THEN m["id"]
            ELSE IF "sampleId" \in DOMAIN m THEN m["sampleId"]
            ELSE IF "sample_id" \in DOMAIN m THEN m["sample_id"]
            ELSE fallbackId
      output_text == IF "output_text" \in DOMAIN m THEN m["output_text"]
                     ELSE IF "output" \in DOMAIN m THEN m["output"]
                     ELSE IF "text" \in DOMAIN m THEN m["text"]
                     ELSE IF "completion" \in DOMAIN m THEN m["completion"]
                     ELSE <<>>
  IN [ k \in (DOMAIN m) \cup {"id", "output_text"} |->
         IF k = "id" THEN id ELSE IF k = "output_text" THEN output_text ELSE m[k] ]

\* the entry's text when it is a string, else Null
extractOutputText(entry) ==
  LET m == entry.m
  IN IF "output_text" \in DOMAIN m THEN m["output_text"]
     ELSE IF "output" \in DOMAIN m THEN m["output"]
     ELSE IF "text" \in DOMAIN m THEN m["text"]
     ELSE IF "completion" \in DOMAIN m THEN m["completion"]
     ELSE Null

\* entry?.id ?? entry?.sampleId ?? entry?.sample_id, EmptyId when all are absent
EntryId(entry) ==
  LET m == entry.m
  IN IF "id" \in DOMAIN m THEN m["id"]
     ELSE IF "sampleId" \in DOMAIN m THEN m["sampleId"]
     ELSE IF "sample_id" \in DOMAIN m THEN m["sample_id"]
     ELSE EmptyId

\* Boolean(v) of the JSON literals an ok member takes: null is falsy
Boolean(v) == v = "true"

\* typeof entry.ok === "undefined" ? true : entry.ok, without the conversion
EntryOkAsWritten(entry) == IF "ok" \in DOMAIN entry.m THEN entry.m["ok"] # "false" ELSE TRUE

\* typeof entry.ok === "undefined" ? true : Boolean(entry.ok)
EntryOk(entry) == IF "ok" \in DOMAIN entry.m THEN Boolean(entry.m["ok"]) ELSE TRUE

\* a batch-level summary that lists no sample id
buildBatchLevelParsedNoIds(raw, items, candidate) ==
  [ output_text |-> unwrapJsonish(raw),
    parseMode |-> "batch_level_output",
    inputCount |-> Len(items),
    outputCount |-> NoCount,
    sampleIds |-> <<>> ]

\* extractOutputText(only) ?? cleaned
textOr(only, cleaned) ==
  IF extractOutputText(only) # Null THEN extractOutputText(only) ELSE cleaned

batchOutputText(cleaned, candidate) ==
  IF IsArray(candidate) /\ Len(candidate.e) = 1
    THEN (IF IsPlainObject(candidate.e[1]) THEN textOr(candidate.e[1], cleaned) ELSE cleaned)
  ELSE IF IsPlainObject(candidate) THEN textOr(candidate, cleaned)
  ELSE cleaned

buildBatchLevelParsed(raw, items, candidate) ==
  [ output_text |-> batchOutputText(unwrapJsonish(raw), candidate),
    parseMode |-> "batch_level_output",
    inputCount |-> Len(items),
    outputCount |-> IF IsArray(candidate) THEN Len(candidate.e)
                    ELSE IF IsPlainObject(candidate) THEN 1
                    ELSE NoCount,
    sampleIds |-> [ i \in 1..Len(items) |-> FallbackId(items[i]) ] ]

coerceFrom(obj, arr) ==
  IF obj.t # "null" THEN obj
  ELSE IF IsArray(arr) /\ Len(arr.e) = 1 /\ IsPlainObject(arr.e[1]) THEN arr.e[1]
  ELSE JNull

coerceSingleObject(raw) == coerceFrom(extractJSONObject(raw), extractJSONArray(raw))

\* the loose object as it was recovered, null when the line has no text member
looseOrNothing(loose, id, text) == loose

\* loose ?? { id, output_text: text, parseMode: "line_split_fallback" }
looseOr(loose, id, text) == IF loose.t # "null" THEN loose ELSE LooseEntry(id, text)

singleFrom(raw, item, obj, fallbackEntries) ==
  IF obj.t = "null"
    THEN (IF fallbackEntries # Null
          THEN [ok |-> TRUE,
                parsed |-> normalizeParsed(
                             looseOr(parseLooseObject(fallbackEntries[1], FallbackId(item)),
                                     FallbackId(item), fallbackEntries[1]),
                             FallbackId(item))]
          ELSE [ok |-> FALSE, parsed |-> [error |-> "parse_failed", raw |-> raw]])
  ELSE [ok |-> EntryOk(obj), parsed |-> normalizeParsed(obj, FallbackId(item))]

parseSingleResponse(raw, item) ==
  singleFrom(raw, item, coerceSingleObject(raw), extractRawObjectEntries(raw))

----------------------------------------------------------------------------
(* The batch reconciler.                                                   *)

\* a per-item result that keeps only the first entry
PerItemFirstOnly(entries) ==
  [mode |-> "per_item", entries |-> IF entries = <<>> THEN <<>> ELSE <<entries[1]>>, parsed |-> NoMembers, raw |-> <<>>]

PerItem(entries) ==
  [mode |-> "per_item", entries |-> entries, parsed |-> NoMembers, raw |-> <<>>]

batchLevel(raw, items, candidate) ==
  [mode |-> "batch_level", entries |-> <<>>,
   parsed |-> buildBatchLevelParsed(raw, items, candidate), raw |-> raw]

BatchEntry(item, ok, parsed, raw) ==
  [item |-> item, ok |-> ok, parsed |-> parsed, raw |-> raw]

\* byId.get(String(id)): the index of the last entry stored under id, 0 when none
LastWithId(ids, id) ==
  LET hits == { i \in 1..Len(ids) : ids[i] # EmptyId /\ ids[i] = id }
  IN IF hits = {} THEN 0 ELSE CHOOSE i \in hits : \A j \in hits : i >= j

\* byId.get(String(fallbackId)) ?? list[idx] : the index picked, 0 when undefined
PickIndex(ids, id, idx) ==
  IF LastWithId(ids, id) # 0 THEN LastWithId(ids, id)
  ELSE IF idx <= Len(ids) THEN idx
  ELSE 0

\* for each item the index picked among the entries with the given ids
Picks(ids, items) ==
  [ idx \in 1..Len(items) |-> PickIndex(ids, FallbackId(items[idx]), idx) ]

arrayEntries(raw, items, payload, pick) ==
  [ idx \in 1..Len(items) |->
    IF pick[idx] = 0
      THEN BatchEntry(items[idx], FALSE,
                      [error |-> "missing_result_for_id",
                       id |-> FallbackId(items[idx]), raw |-> raw], raw)
    ELSE BatchEntry(items[idx], TRUE,
                    normalizeParsed(payload.e[pick[idx]], FallbackId(items[idx])),
                    JSONstringify(payload.e[pick[idx]])) ]

\* an array tier that answers a count mismatch at batch level in either mode
arrayPickedAnyMode(raw, items, allowCountMismatch, payload, pick) ==
  IF Len(payload.e) # Len(items) THEN batchLevel(raw, items, payload)
  ELSE IF \E idx \in 1..Len(items) : pick[idx] = 0
    THEN batchLevel(raw, items, payload)
  ELSE PerItem(arrayEntries(raw, items, payload, pick))

arrayPicked(raw, items, allowCountMismatch, payload, pick) ==
  IF allowCountMismatch /\ Len(payload.e) # Len(items) THEN batchLevel(raw, items, payload)
  ELSE IF allowCountMismatch /\ (\E idx \in 1..Len(items) : pick[idx] = 0)
    THEN batchLevel(raw, items, payload)
  ELSE PerItem(arrayEntries(raw, items, payload, pick))

\* tier 1: the reply holds a JSON array
arrayTier(raw, items, allowCountMismatch, payload) ==
  arrayPicked(raw, items, allowCountMismatch, payload,
              Picks([ i \in 1..Len(payload.e) |-> EntryId(payload.e[i]) ], items))

\* tier 2: the reply holds balanced objects
objectListTier(raw, items, allowCountMismatch, looseObjects) ==
  LET mapped == [ idx \in 1..Len(items) |->
                  IF idx <= Len(looseObjects) THEN looseObjects[idx] ELSE looseObjects[1] ]
      entries == [ idx \in 1..Len(items) |->
                   BatchEntry(items[idx], EntryOk(mapped[idx]),
                              normalizeParsed(mapped[idx], FallbackId(items[idx])),
                              JSONstringify(mapped[idx])) ]
  IN IF allowCountMismatch /\ Len(looseObjects) # Len(items)
       THEN batchLevel(raw, items, JArr(looseObjects))
     ELSE PerItem(entries)

\* fallbackObjects[..].obj
looseObjectsOf(fallbackEntries, items) ==
  [ idx \in 1..Len(fallbackEntries) |->
    parseLooseObject(fallbackEntries[idx],
                     IF idx <= Len(items) THEN FallbackId(items[idx]) ELSE EmptyId) ]

lineEntries(raw, items, fallbackEntries, objs, pick) ==
  [ idx \in 1..Len(items) |->
    IF pick[idx] = 0
      THEN BatchEntry(items[idx], FALSE,
                      [error |-> "line_split_missing_entry", raw |-> raw], raw)
    ELSE BatchEntry(items[idx], TRUE,
                    normalizeParsed(looseOr(objs[pick[idx]], FallbackId(items[idx]),
                                            fallbackEntries[pick[idx]]),
                                    FallbackId(items[idx])),
                    fallbackEntries[pick[idx]]) ]

\* the candidate of the batch-level outcome: the entries as strings
asStrings(fallbackEntries) ==
  JArr([ i \in 1..Len(fallbackEntries) |-> JStr(fallbackEntries[i]) ])

linePicked(raw, items, allowCountMismatch, fallbackEntries, objs, pick) ==
  IF allowCountMismatch /\ Len(fallbackEntries) # Len(items)
    THEN batchLevel(raw, items, asStrings(fallbackEntries))
  ELSE IF allowCountMismatch /\ (\E idx \in 1..Len(items) : pick[idx] = 0)
    THEN batchLevel(raw, items, asStrings(fallbackEntries))
  ELSE PerItem(lineEntries(raw, items, fallbackEntries, objs, pick))

lineObjects(raw, items, allowCountMismatch, fallbackEntries, objs) ==
  linePicked(raw, items, allowCountMismatch, fallbackEntries, objs,
             Picks([ i \in 1..Len(objs) |-> EntryId(objs[i]) ], items))

\* tier 3: raw brace regions, or lines
lineSplitTier(raw, items, allowCountMismatch, fallbackEntries) ==
  lineObjects(raw, items, allowCountMismatch, fallbackEntries,
              looseObjectsOf(fallbackEntries, items))

\* a reconciler that answers a reply without structure like an entry that is
\* missing from an array
noStructureAsMissing(raw, items, allowCountMismatch) ==
  IF allowCountMismatch THEN batchLevel(raw, items, JArr(<<>>))
  ELSE PerItem([ idx \in 1..Len(items) |->
                 BatchEntry(items[idx], FALSE,
                            [error |-> "missing_result_for_id", raw |-> raw], raw) ])

\* a reconciler that answers a reply without structure at batch level in
\* either mode
noStructureBatchLevel(raw, items, allowCountMismatch) == batchLevel(raw, items, JNull)

\* no tier found any structure
noStructure(raw, items, allowCountMismatch) ==
  IF allowCountMismatch THEN batchLevel(raw, items, JNull)
  ELSE PerItem([ idx \in 1..Len(items) |->
                 BatchEntry(items[idx], FALSE, [error |-> "batch_parse_failed", raw |-> raw], raw) ])

\* the tiers with the object list tried before the array
tiersObjectsFirst(raw, items, allowCountMismatch, payload, looseObjects, fallbackEntries) ==
  IF looseObjects # Null
    THEN objectListTier(raw, items, allowCountMismatch, looseObjects)
  ELSE IF IsArray(payload) THEN arrayTier(raw, items, allowCountMismatch, payload)
  ELSE IF fallbackEntries # Null
    THEN lineSplitTier(raw, items, allowCountMismatch, fallbackEntries)
  ELSE noStructure(raw, items, allowCountMismatch)

tiers(raw, items, allowCountMismatch, payload, looseObjects, fallbackEntries) ==
  IF IsArray(payload) THEN arrayTier(raw, items, allowCountMismatch, payload)
  ELSE IF looseObjects # Null
    THEN objectListTier(raw, items, allowCountMismatch, looseObjects)
  ELSE IF fallbackEntries # Null
    THEN lineSplitTier(raw, items, allowCountMismatch, fallbackEntries)
  ELSE noStructure(raw, items, allowCountMismatch)

parseBatchResponse(raw, items, allowCountMismatch) ==
  tiers(raw, items, allowCountMismatch,
        extractJSONArray(raw), extractObjectList(raw), extractRawObjectEntries(raw))

----------------------------------------------------------------------------
(* Bounds of the model.                                                    *)

\* concurrent invocations of processBatch that can be past its guard
NumSlots == 2

\* the largest value of QueueItem.retries explored
MaxRetries == 1

\* batch-level ResultRecords explored
MaxBatchRecords == 2

\* actions of the user and the browser explored in one behaviour: control:start,
\* control:pause, a click on "Retry errors", the removal of the locked tab, a
\* restart of the service worker
MaxEnvActions == 2

Slots == 1..NumSlots

Targets == {"gemini"}

\* null as lastError / error
NoError == "null"

\* DEFAULT_SETTINGS
DefaultBatchSize == 20

DEFAULT_SETTINGS == [batchSize |-> DefaultBatchSize, outputCountMode |-> "match_input"]

\* the settings a control:start message can carry
StartSettings ==
  [batchSize : {0, NumItems}, outputCountMode : {"match_input", "allow_mismatch"}]

\* the replies the chat page can return
ReplyB == <<"[", "{", "id:1", ",", "out:a", "}", ",", "{", "id:3", ",", "out:c", "}", "]">>

ReplyObject == <<"{", "id:1", ",", "out:a", "}">>

ReplyNotOk == <<"{", "ok:false", "}">>

ReplyFreeform == <<"w">>

ReplyBlank == <<NL>>

Replies == {ReplyB, ReplyBlank}

\* what sendPromptToTab can resolve to: a reply (possibly empty), a reported
\* error, or a failure that reports none
DriverResults ==
  [ok : {TRUE}, reply : Replies \cup {<<>>}, error : {""}]
    \cup [ok : {FALSE}, reply : {<<>>}, error : {"timeout", ""}]

----------------------------------------------------------------------------
(* State.                                                                  *)

VARIABLES
  queue,         \* db.queue: item id -> [status, retries, lastError, target]
  results,       \* db.results: record id -> ResultRecord
  running,       \* state.running
  timer,         \* state.timer: "none" (null), "armed", "fired" (a stale handle)
  processing,    \* state.processing
  settings,      \* state.settings
  lockedTarget,  \* lockedTarget: "none" or the target site
  cyc,           \* the invocations of processBatch: slot -> locals and position
  rec,           \* the runs of reconcileInflightItems: handler -> locals and position
  retry,         \* the side panel's retryErrors: locals and position
  nextBatch,     \* batch-level record ids handed out so far
  crashes,       \* service worker restarts so far
  env,           \* the user's and the browser's actions since the initial state
  pausedMidCycle, \* history: a pause arrived while a cycle was past the inflight
                  \* marking, and control:start has not been received since
  page,          \* the chat page: its assistant messages and its stage
  content        \* the content script: the locals and position of handlePrompt

vars == <<queue, results, running, timer, processing, settings, lockedTarget,
          cyc, rec, retry, nextBatch, crashes, env, pausedMidCycle, page, content>>

Handlers == {"start", "startup"}

\* the text of an assistant message: the prompt it answers (0: a prompt of an
\* earlier conversation) and the pieces of it rendered so far
Text(prompt, len) == [prompt |-> prompt, len |-> len]

\* the empty string
NoText == Text(0, 0)

\* a page that is not answering a prompt
QuietPage(replies) == [replies |-> replies, stage |-> "quiet", prompt |-> 0]

IdleContent == [pc |-> "idle", prompt |-> 0, last |-> NoText, settleTimer |-> FALSE,
                reply |-> NoText, error |-> NoError]

\* the import stores items with seq in id order
SeqOf(id) == id

\* ids of batch-level records ("batch-<uuid>"): distinct from every item id
BatchId(n) == NumItems + 100 + n

NoOutcome == PerItem(<<>>)

IdleCycle ==
  [pc |-> "idle", limit |-> 0, items |-> <<>>, target |-> "none", prompt |-> <<>>,
   reply |-> <<>>,
   error |-> NoError, allow |-> FALSE, out |-> NoOutcome, idx |-> 0, made |-> 0, bid |-> 0]

NoExisting == [found |-> FALSE, ok |-> FALSE, error |-> NoError]

\* overtaken is history: a pause was handled since the request of this run
\* of handleStart was received
IdleRecon ==
  [pc |-> "idle", list |-> <<>>, idx |-> 0, existing |-> NoExisting, arg |-> DEFAULT_SETTINGS,
   overtaken |-> FALSE]

IdleRetry == [pc |-> "idle", errors |-> <<>>]

NewItem == [status |-> "pending", retries |-> 0, lastError |-> NoError, target |-> "auto"]

Init ==
  /\ queue = [i \in ItemIds |-> NewItem]
  /\ results = [r \in {} |-> 0]
  /\ running = FALSE
  /\ timer = "none"
  /\ processing = FALSE
  /\ settings = DEFAULT_SETTINGS
  /\ lockedTarget = "none"
  /\ cyc = [s \in Slots |-> IdleCycle]
  /\ rec = [h \in Handlers |-> IdleRecon]
  /\ retry = IdleRetry
  /\ nextBatch = 0
  /\ crashes = 0
  /\ env = 0
  /\ pausedMidCycle = FALSE
  /\ page = QuietPage(<<>>)
  /\ content = IdleContent

\* the ids of S in ascending seq order
RECURSIVE SortedBySeq(_)
SortedBySeq(S) ==
  IF S = {} THEN <<>>
  ELSE LET first == CHOOSE i \in S : \A j \in S : SeqOf(i) <= SeqOf(j)
       IN <<first>> \o SortedBySeq(S \ {first})

Take(s, n) == SubSeq(s, 1, IF n < Len(s) THEN n ELSE Len(s))

\* the snapshot of an item that a query returns (the fields the callers read)
Snapshot(id) == [id |-> id, retries |-> queue[id].retries]

WithStatus(st) == { i \in ItemIds : queue[i].status = st }

----------------------------------------------------------------------------
(* The dispatch loop.  A step is the completion of one awaited operation   *)
(* together with the code that runs until the next await.                  *)

\* a guard that forgets the re-entrancy flag
GuardIgnoresProcessing(isRunning, isProcessing) == isRunning

\* a guard that reads the re-entrancy flag the wrong way round
GuardWantsProcessing(isRunning, isProcessing) == isRunning /\ isProcessing

\* line 698: if (!state.running || state.processing) return;
GuardPasses(isRunning, isProcessing) == isRunning /\ ~isProcessing

FreeSlot == CHOOSE s \in Slots : cyc[s].pc = "idle" /\ \A u \in Slots : cyc[u].pc = "idle" => s <= u

\* a limit that takes the configured batch size as it is
BatchLimitUnclamped(st) == st.batchSize

\* Math.max(1, state.settings.batchSize || 1)
BatchLimit(st) == IF st.batchSize >= 1 THEN st.batchSize ELSE 1

\* processBatch() called with the given values of the two flags: when the
\* guard passes, a cycle starts (processing is set and processOne issues
\* its query); otherwise the call returns at once.
CallProcessBatch(isRunning, st) ==
  IF GuardPasses(isRunning, processing) /\ \E s \in Slots : cyc[s].pc = "idle"
    THEN /\ processing' = TRUE
         /\ cyc' = [cyc EXCEPT ![FreeSlot] =
                      [IdleCycle EXCEPT !.pc = "select", !.limit = BatchLimit(st)]]
    ELSE UNCHANGED <<processing, cyc>>

\* an end of processBatch that schedules the next cycle whatever processOne
\* returned
FinishIgnoresOutcome(s, ok) ==
  /\ cyc' = [cyc EXCEPT ![s] = IdleCycle]
  /\ processing' = FALSE
  /\ IF running
       THEN /\ timer' = "armed"
            /\ UNCHANGED <<running, lockedTarget>>
     ELSE UNCHANGED <<running, lockedTarget, timer>>

\* the end of processBatch once processOne has returned ok
Finish(s, ok) ==
  /\ cyc' = [cyc EXCEPT ![s] = IdleCycle]
  /\ processing' = FALSE
  /\ IF ok /\ running
       THEN /\ timer' = "armed"
            /\ UNCHANGED <<running, lockedTarget>>
     ELSE IF ~ok
       THEN /\ running' = FALSE
            /\ lockedTarget' = "none"
            /\ timer' = "none"
     ELSE UNCHANGED <<running, lockedTarget, timer>>

\* queue:flush (notifyNewWork)
Flush ==
  /\ GuardPasses(running, processing)
  /\ CallProcessBatch(running, settings)
  /\ UNCHANGED <<queue, results, running, timer, settings, lockedTarget, rec, retry,
                 nextBatch, crashes, env, pausedMidCycle, page, content>>

\* the delay timer fires
TimerFire ==
  /\ timer = "armed"
  /\ timer' = "fired"
  /\ CallProcessBatch(running, settings)
  /\ UNCHANGED <<queue, results, running, settings, lockedTarget, rec, retry,
                 nextBatch, crashes, env, pausedMidCycle, page, content>>

\* processOne: the pending items arrive
Select(s) ==
  /\ cyc[s].pc = "select"
  /\ LET ids == Take(SortedBySeq(WithStatus("pending")), cyc[s].limit)
         items == [ i \in 1..Len(ids) |-> Snapshot(ids[i]) ]
     IN IF items = <<>>
          THEN Finish(s, FALSE)
        ELSE /\ cyc' = [cyc EXCEPT ![s].pc = "locate", ![s].items = items]
             /\ UNCHANGED <<running, timer, processing, lockedTarget>>
  /\ UNCHANGED <<queue, results, settings, rec, retry, nextBatch, crashes, env, pausedMidCycle, page, content>>

\* ensureTargetTab without its first test: the target is resolved again in
\* every cycle
LocateResolvesAgain(s) ==
  /\ cyc[s].pc = "locate"
  /\ \/ \E t \in Targets :
          /\ lockedTarget' = t
          /\ cyc' = [cyc EXCEPT ![s].pc = "mark", ![s].target = t]
     \/ /\ cyc' = [cyc EXCEPT ![s].pc = "notfound", ![s].idx = 1]
        /\ UNCHANGED lockedTarget
  /\ UNCHANGED <<queue, results, running, timer, processing, settings, rec, retry,
                 nextBatch, crashes, env, pausedMidCycle, page, content>>

\* ensureTargetTab and ensureContentScript: the locked target, a detected or
\* created tab, or none
Locate(s) ==
  /\ cyc[s].pc = "locate"
  /\ \/ /\ lockedTarget # "none"
        /\ cyc' = [cyc EXCEPT ![s].pc = "mark", ![s].target = lockedTarget]
        /\ UNCHANGED lockedTarget
     \/ /\ lockedTarget = "none"
        /\ \E t \in Targets :
             /\ lockedTarget' = t
             /\ cyc' = [cyc EXCEPT ![s].pc = "mark", ![s].target = t]
     \/ /\ lockedTarget = "none"
        /\ cyc' = [cyc EXCEPT ![s].pc = "notfound", ![s].idx = 1]
        /\ UNCHANGED lockedTarget
  /\ UNCHANGED <<queue, results, running, timer, processing, settings, rec, retry,
                 nextBatch, crashes, env, pausedMidCycle, page, content>>

\* a no-target path that fails the items it had selected
NotFoundFailsItems(s) ==
  /\ cyc[s].pc = "notfound"
  /\ LET c == cyc[s]
         id == c.items[c.idx].id
     IN /\ queue' = [queue EXCEPT ![id].lastError = "target_tab_not_found",
                                  ![id].status = "error"]
        /\ IF c.idx = Len(c.items)
             THEN Finish(s, FALSE)
           ELSE /\ cyc' = [cyc EXCEPT ![s].idx = c.idx + 1]
                /\ UNCHANGED <<running, timer, processing, lockedTarget>>
  /\ UNCHANGED <<results, settings, rec, retry, nextBatch, crashes, env, pausedMidCycle, page, content>>

\* no target: one lastError write per item, then processOne returns false
NotFound(s) ==
  /\ cyc[s].pc = "notfound"
  /\ LET c == cyc[s]
         id == c.items[c.idx].id
     IN /\ queue' = [queue EXCEPT ![id].lastError = "target_tab_not_found"]
        /\ IF c.idx = Len(c.items)
             THEN Finish(s, FALSE)
           ELSE /\ cyc' = [cyc EXCEPT ![s].idx = c.idx + 1]
                /\ UNCHANGED <<running, timer, processing, lockedTarget>>
  /\ UNCHANGED <<results, settings, rec, retry, nextBatch, crashes, env, pausedMidCycle, page, content>>

BatchIds(c) == { c.items[i].id : i \in 1..Len(c.items) }

\* state.prompt: the instruction prompt, two lines of text
DEFAULT_PROMPT == <<"w", NL, "w">>

\* item.prompt: JSON.stringify({ id, ...payload }) as the import stored it
ItemPrompt(item) == <<"{", TokOf("id", item.id), "}">>

RECURSIVE JoinLines(_)
\* parts.join("\n")
JoinLines(parts) ==
  IF parts = <<>> THEN <<>>
  ELSE IF Len(parts) = 1 THEN parts[1]
  ELSE parts[1] \o <<NL>> \o JoinLines(Tail(parts))

\* the prefix of the submitted text: the trimmed prompt and two newlines
promptPrefix(trimmedPrompt) ==
  IF trimmedPrompt # <<>> THEN trimmedPrompt \o <<NL, NL>> ELSE <<>>

buildBatchPrompt(items, prompt) ==
  promptPrefix(Trim(prompt))
    \o JoinLines(SelectSeq([ i \in 1..Len(items) |-> Trim(ItemPrompt(items[i])) ],
                           LAMBDA body : body # <<>>))

\* a cycle that sends the prompt and marks only the first item of the batch
MarkInflightFirstOnly(s) ==
  /\ cyc[s].pc = "mark"
  /\ queue' = [queue EXCEPT ![cyc[s].items[1].id].status = "inflight",
                            ![cyc[s].items[1].id].target = cyc[s].target]
  /\ cyc' = [cyc EXCEPT ![s].pc = "submit",
                         ![s].prompt = buildBatchPrompt(cyc[s].items, DEFAULT_PROMPT)]
  /\ UNCHANGED <<results, running, timer, processing, settings, lockedTarget, rec, retry,
                 nextBatch, crashes, env, pausedMidCycle, page, content>>

\* the inflight writes (one Promise.all), then the prompt is sent
MarkInflight(s) ==
  /\ cyc[s].pc = "mark"
  /\ queue' = [ i \in ItemIds |->
                IF i \in BatchIds(cyc[s])
                  THEN [queue[i] EXCEPT !.status = "inflight", !.target = cyc[s].target]
                ELSE queue[i] ]
  /\ cyc' = [cyc EXCEPT ![s].pc = "submit",
                         ![s].prompt = buildBatchPrompt(cyc[s].items, DEFAULT_PROMPT)]
  /\ UNCHANGED <<results, running, timer, processing, settings, lockedTarget, rec, retry,
                 nextBatch, crashes, env, pausedMidCycle, page, content>>

singleOutcome(item, raw, parsedResult) ==
  PerItem(<<BatchEntry(item, parsedResult.ok, parsedResult.parsed, raw)>>)

\* the reply routed to the single-item or the multi-item path
Reconcile(raw, items, allowCountMismatch) ==
  IF Len(items) = 1
    THEN singleOutcome(items[1], raw, parseSingleResponse(raw, items[1]))
  ELSE parseBatchResponse(raw, items, allowCountMismatch)

\* state.settings.outputCountMode === "allow_mismatch"
AllowCountMismatch == settings.outputCountMode = "allow_mismatch"

\* the locals of processOne once the reply is reconciled
Routed(c, reply, allow, out) ==
  [c EXCEPT !.pc = IF out.mode = "batch_level" THEN "bput" ELSE "put",
            !.idx = 1, !.reply = reply, !.allow = allow, !.out = out]

\* processOne resumes with the result res of sendPromptToTab: the failure
\* path, or the reply reconciled with the batch
Resumes(s, res) ==
  IF ~res.ok \/ res.reply = <<>>
    THEN /\ \A i \in 1..Len(cyc[s].items) : cyc[s].items[i].retries < MaxRetries
         /\ cyc' = [cyc EXCEPT ![s].pc = "fail", ![s].idx = 1,
                      ![s].error = IF res.error # "" THEN res.error ELSE "send_failed"]
  ELSE /\ cyc' = [cyc EXCEPT ![s] =
                    Routed(cyc[s], res.reply, AllowCountMismatch,
                           Reconcile(res.reply, cyc[s].items, AllowCountMismatch))]
       /\ cyc'[s].pc = "bput" => nextBatch < MaxBatchRecords

\* the driver call returns
DriverReply(s) ==
  /\ cyc[s].pc = "submit"
  /\ \E res \in DriverResults : Resumes(s, res)
  /\ UNCHANGED <<queue, results, running, timer, processing, settings, lockedTarget, rec,
                 retry, nextBatch, crashes, env, pausedMidCycle, page, content>>

\* a failure path that leaves the retry counter alone
FailItemKeepsRetries(s) ==
  /\ cyc[s].pc = "fail"
  /\ LET c == cyc[s]
         item == c.items[c.idx]
     IN /\ queue' = [queue EXCEPT ![item.id].status = "error",
                                  ![item.id].lastError = c.error]
        /\ IF c.idx = Len(c.items)
             THEN Finish(s, TRUE)
           ELSE /\ cyc' = [cyc EXCEPT ![s].idx = c.idx + 1]
                /\ UNCHANGED <<running, timer, processing, lockedTarget>>
  /\ UNCHANGED <<results, settings, rec, retry, nextBatch, crashes, env, pausedMidCycle, page, content>>

\* driver failure: one write per item, then processOne returns true
FailItem(s) ==
  /\ cyc[s].pc = "fail"
  /\ LET c == cyc[s]
         item == c.items[c.idx]
     IN /\ queue' = [queue EXCEPT ![item.id].status = "error",
                                  ![item.id].lastError = c.error,
                                  ![item.id].retries = item.retries + 1]
        /\ IF c.idx = Len(c.items)
             THEN Finish(s, TRUE)
           ELSE /\ cyc' = [cyc EXCEPT ![s].idx = c.idx + 1]
                /\ UNCHANGED <<running, timer, processing, lockedTarget>>
  /\ UNCHANGED <<results, settings, rec, retry, nextBatch, crashes, env, pausedMidCycle, page, content>>

\* !ok && parsed ? parsed.error || parsed.message || "parse_error" : null
ResultError(ok, parsed) ==
  IF ok THEN NoError
  ELSE IF "error" \in DOMAIN parsed THEN parsed["error"]
  ELSE "parse_error"

PutRecord(id, record) ==
  [ r \in (DOMAIN results) \cup {id} |-> IF r = id THEN record ELSE results[r] ]

\* markResult, first await: db.results.put.  The field attempt is history,
\* kept beside createdAt: the retries of the item as the writing cycle read it.
PutResult(s) ==
  /\ cyc[s].pc = "put"
  /\ LET c == cyc[s]
         e == c.out.entries[c.idx]
     IN results' = PutRecord(e.item.id,
                     [id |-> e.item.id, sampleId |-> FallbackId(e.item), rawResponse |-> e.raw,
                      parsed |-> e.parsed, ok |-> e.ok, error |-> ResultError(e.ok, e.parsed),
                      target |-> c.target, attempt |-> e.item.retries])
  /\ cyc' = [cyc EXCEPT ![s].pc = "upd", ![s].made = cyc[s].made + 1]
  /\ UNCHANGED <<queue, running, timer, processing, settings, lockedTarget, rec, retry,
                 nextBatch, crashes, env, pausedMidCycle, page, content>>

\* markResult, second await: db.queue.update
UpdStatus(s) ==
  /\ cyc[s].pc = "upd"
  /\ LET c == cyc[s]
         e == c.out.entries[c.idx]
     IN /\ queue' = [queue EXCEPT ![e.item.id].status = IF e.ok THEN "done" ELSE "error",
                                  ![e.item.id].lastError = ResultError(e.ok, e.parsed)]
        /\ IF c.idx = Len(c.out.entries)
             THEN Finish(s, TRUE)
           ELSE /\ cyc' = [cyc EXCEPT ![s].pc = "put", ![s].idx = c.idx + 1]
                /\ UNCHANGED <<running, timer, processing, lockedTarget>>
  /\ UNCHANGED <<results, settings, rec, retry, nextBatch, crashes, env, pausedMidCycle, page, content>>

\* markBatchResult, first await: db.results.put under a fresh batch id
BatchPut(s) ==
  /\ cyc[s].pc = "bput"
  /\ LET c == cyc[s]
         batchId == BatchId(nextBatch + 1)
     IN /\ results' = PutRecord(batchId,
                        [id |-> batchId, sampleId |-> batchId, rawResponse |-> c.out.raw,
                         parsed |-> c.out.parsed, ok |-> TRUE, error |-> NoError,
                         target |-> c.target])
        /\ cyc' = [cyc EXCEPT ![s].pc = "bupd", ![s].made = c.made + 1, ![s].bid = batchId]
  /\ nextBatch' = nextBatch + 1
  /\ UNCHANGED <<queue, running, timer, processing, settings, lockedTarget, rec, retry,
                 crashes, env, pausedMidCycle, page, content>>

\* markBatchResult, second await: the status writes (one Promise.all)
BatchUpd(s) ==
  /\ cyc[s].pc = "bupd"
  /\ queue' = [ i \in ItemIds |->
                IF i \in BatchIds(cyc[s])
                  THEN [queue[i] EXCEPT !.status = "done", !.lastError = NoError]
                ELSE queue[i] ]
  /\ Finish(s, TRUE)
  /\ UNCHANGED <<results, settings, rec, retry, nextBatch, crashes, env, pausedMidCycle, page, content>>

----------------------------------------------------------------------------
(* Recovery (reconcileInflightItems), run by control:start and by the      *)
(* onStartup / onInstalled listeners.                                      *)

\* control:start arrives: handleStart issues the inflight query
StartMsg ==
  /\ env < MaxEnvActions
  /\ env' = env + 1
  /\ rec["start"].pc = "idle"
  /\ \E st \in StartSettings :
       rec' = [rec EXCEPT !["start"] = [IdleRecon EXCEPT !.pc = "read", !.arg = st]]
  /\ pausedMidCycle' = FALSE
  /\ UNCHANGED <<page, content>>
  /\ UNCHANGED <<queue, results, running, timer, processing, settings, lockedTarget, cyc,
                 retry, nextBatch, crashes>>

\* reconcileInflightItems returns to its caller: handleStart stores the
\* settings and awaits the settings write and the prompt load; the startup
\* listener has nothing left that touches this state
ReconDone(h) ==
  IF h = "start"
    THEN /\ rec' = [rec EXCEPT ![h].pc = "persist", ![h].list = <<>>, ![h].idx = 0,
                      ![h].existing = NoExisting]
         /\ settings' = rec[h].arg
    ELSE /\ rec' = [rec EXCEPT ![h] = IdleRecon]
         /\ UNCHANGED settings

\* the inflight items arrive
ReconRead(h) ==
  /\ rec[h].pc = "read"
  /\ LET ids == SortedBySeq(WithStatus("inflight"))
         list == [ i \in 1..Len(ids) |-> Snapshot(ids[i]) ]
     IN IF list = <<>>
          THEN ReconDone(h)
        ELSE /\ rec' = [rec EXCEPT ![h].pc = "get", ![h].list = list, ![h].idx = 1]
             /\ UNCHANGED settings
  /\ UNCHANGED <<queue, results, running, timer, processing, lockedTarget, cyc, retry,
                 nextBatch, crashes, env, pausedMidCycle, page, content>>

\* db.results.get(item.id) returns
ReconGet(h) ==
  /\ rec[h].pc = "get"
  /\ LET id == rec[h].list[rec[h].idx].id
     IN rec' = [rec EXCEPT ![h].pc = "upd",
                  ![h].existing =
                    IF id \in DOMAIN results
                      THEN [found |-> TRUE, ok |-> results[id].ok, error |-> results[id].error]
                    ELSE NoExisting]
  /\ UNCHANGED <<queue, results, running, timer, processing, settings, lockedTarget, cyc,
                 retry, nextBatch, crashes, env, pausedMidCycle, page, content>>

\* a recovery that ignores the stored record
RecoveredAlwaysPending(item, existing, snapshot) ==
  [item EXCEPT !.status = "pending",
               !.lastError = "recovered_after_pause_or_restart",
               !.retries = snapshot.retries + 1]

\* a recovery that forgets the status of an item without a record
RecoveredKeepsStatus(item, existing, snapshot) ==
  IF existing.found
    THEN [item EXCEPT !.status = IF existing.ok THEN "done" ELSE "error",
                      !.lastError = existing.error]
  ELSE [item EXCEPT !.lastError = "recovered_after_pause_or_restart",
                    !.retries = snapshot.retries + 1]

\* the item as the recovery writes it, given what it read
Recovered(item, existing, snapshot) ==
  IF existing.found
    THEN [item EXCEPT !.status = IF existing.ok THEN "done" ELSE "error",
                      !.lastError = existing.error]
  ELSE [item EXCEPT !.status = "pending",
                    !.lastError = "recovered_after_pause_or_restart",
                    !.retries = snapshot.retries + 1]

\* the status write of the recovery lands
ReconUpd(h) ==
  /\ rec[h].pc = "upd"
  /\ LET r == rec[h]
         snapshot == r.list[r.idx]
     IN /\ ~r.existing.found => snapshot.retries < MaxRetries
        /\ queue' = [queue EXCEPT ![snapshot.id] = Recovered(queue[snapshot.id], r.existing, snapshot)]
        /\ IF r.idx = Len(r.list)
             THEN ReconDone(h)
           ELSE /\ rec' = [rec EXCEPT ![h].pc = "get", ![h].idx = r.idx + 1,
                             ![h].existing = NoExisting]
                /\ UNCHANGED settings
  /\ UNCHANGED <<results, running, timer, processing, lockedTarget, cyc, retry, nextBatch,
                 crashes, env, pausedMidCycle, page, content>>

\* handleStart after its last await: running is set and startLoop runs
StartFinish ==
  /\ rec["start"].pc = "persist"
  /\ rec' = [rec EXCEPT !["start"] = IdleRecon]
  /\ running' = TRUE
  /\ timer' = "none"
  /\ CallProcessBatch(TRUE, settings)
  /\ UNCHANGED <<queue, results, settings, lockedTarget, retry, nextBatch, crashes, env, pausedMidCycle, page, content>>

\* the cycle has issued its inflight writes and has not returned yet
PastMark(c) == c.pc \in {"submit", "fail", "put", "upd", "bput", "bupd"}

\* control:pause
Pause ==
  /\ env < MaxEnvActions
  /\ env' = env + 1
  /\ running \/ timer # "none" \/ lockedTarget # "none"
  /\ running' = FALSE
  /\ timer' = "none"
  /\ lockedTarget' = "none"
  /\ pausedMidCycle' = (pausedMidCycle \/ \E s \in Slots : PastMark(cyc[s]))
  /\ rec' = [rec EXCEPT !["start"].overtaken = (rec["start"].pc # "idle")]
  /\ UNCHANGED <<page, content>>
  /\ UNCHANGED <<queue, results, processing, settings, cyc, retry, nextBatch, crashes>>

\* chrome.tabs.onRemoved for the locked tab
TabRemoved ==
  /\ env < MaxEnvActions
  /\ env' = env + 1
  /\ lockedTarget # "none"
  /\ lockedTarget' = "none"
  /\ UNCHANGED <<queue, results, running, timer, processing, settings, cyc, rec, retry,
                 nextBatch, crashes, pausedMidCycle, page, content>>

----------------------------------------------------------------------------
(* The side panel's retryErrors.                                           *)

RetryRead ==
  /\ env < MaxEnvActions
  /\ env' = env + 1
  /\ retry.pc = "idle"
  /\ WithStatus("error") # {}
  /\ LET ids == SortedBySeq(WithStatus("error"))
     IN retry' = [pc |-> "write", errors |-> [ i \in 1..Len(ids) |-> Snapshot(ids[i]) ]]
  /\ UNCHANGED <<queue, results, running, timer, processing, settings, lockedTarget, cyc,
                 rec, nextBatch, crashes, pausedMidCycle, page, content>>

\* the item as retryErrors writes it
Retried(item, snapshot) ==
  [item EXCEPT !.status = "pending", !.lastError = NoError, !.retries = snapshot.retries + 1]

RetryWrite ==
  /\ retry.pc = "write"
  /\ \A i \in 1..Len(retry.errors) : retry.errors[i].retries < MaxRetries
  /\ queue' = [ id \in ItemIds |->
                IF \E i \in 1..Len(retry.errors) : retry.errors[i].id = id
                  THEN Retried(queue[id],
                               retry.errors[CHOOSE i \in 1..Len(retry.errors) :
                                              retry.errors[i].id = id])
                ELSE queue[id] ]
  /\ retry' = IdleRetry
  /\ UNCHANGED <<results, running, timer, processing, settings, lockedTarget, cyc, rec,
                 nextBatch, crashes, env, pausedMidCycle, page, content>>

----------------------------------------------------------------------------
(* The service worker is stopped and started again: the module state is    *)
(* re-initialised, the stores persist, every handler in progress is gone.  *)
(* On a browser start the onStartup listener runs the recovery.            *)

Crash ==
  /\ env < MaxEnvActions
  /\ env' = env + 1
  /\ crashes' = crashes + 1
  /\ running' = FALSE
  /\ timer' = "none"
  /\ processing' = FALSE
  /\ settings' = DEFAULT_SETTINGS
  /\ lockedTarget' = "none"
  /\ cyc' = [s \in Slots |-> IdleCycle]
  /\ \E startup \in BOOLEAN :
       rec' = [h \in Handlers |->
                 IF h = "startup" /\ startup THEN [IdleRecon EXCEPT !.pc = "read"]
                 ELSE IdleRecon]
  /\ pausedMidCycle' = FALSE
  /\ UNCHANGED <<page, content>>
  /\ UNCHANGED <<queue, results, retry, nextBatch>>

Next ==
  \/ Flush
  \/ TimerFire
  \/ \E s \in Slots : Select(s)
  \/ \E s \in Slots : Locate(s)
  \/ \E s \in Slots : NotFound(s)
  \/ \E s \in Slots : MarkInflight(s)
  \/ \E s \in Slots : DriverReply(s)
  \/ \E s \in Slots : FailItem(s)
  \/ \E s \in Slots : PutResult(s)
  \/ \E s \in Slots : UpdStatus(s)
  \/ \E s \in Slots : BatchPut(s)
  \/ \E s \in Slots : BatchUpd(s)
  \/ StartMsg
  \/ \E h \in Handlers : ReconRead(h)
  \/ \E h \in Handlers : ReconGet(h)
  \/ \E h \in Handlers : ReconUpd(h)
  \/ StartFinish
  \/ Pause
  \/ TabRemoved
  \/ RetryRead
  \/ RetryWrite
  \/ Crash

Spec == Init /\ [][Next]_vars

\* the state in which a first control:start on a fresh queue (one batch for
\* the whole queue, strict counting) leaves the program: handleStart has
\* stored the settings and startLoop has called processBatch, whose cycle
\* has issued its query
InitRunning ==
  /\ queue = [i \in ItemIds |-> NewItem]
  /\ results = [r \in {} |-> 0]
  /\ running = TRUE
  /\ timer = "none"
  /\ processing = TRUE
  /\ settings = [batchSize |-> NumItems, outputCountMode |-> "match_input"]
  /\ lockedTarget = "none"
  /\ cyc = [s \in Slots |-> IF s = 1 THEN [IdleCycle EXCEPT !.pc = "select",
                                                           !.limit = BatchLimit(settings)]
                            ELSE IdleCycle]
  /\ rec = [h \in Handlers |-> IdleRecon]
  /\ retry = IdleRetry
  /\ nextBatch = 0
  /\ crashes = 0
  /\ env = 0
  /\ pausedMidCycle = FALSE
  /\ page = QuietPage(<<>>)
  /\ content = IdleContent

\* the program from its first start on
SpecRunning == InitRunning /\ [][Next]_vars

\* the batch sizes a start request can carry: below 1, up to the number of
\* items, and above it
BatchSizes == -1..(NumItems + 1)

\* an item that a one-item cycle has settled: done from the reply
\* ReplyObject, or error after a driver timeout
SettledItem(st) ==
  IF st = "done"
    THEN [status |-> "done", retries |-> 0, lastError |-> NoError, target |-> "gemini"]
  ELSE IF st = "error"
    THEN [status |-> "error", retries |-> 1, lastError |-> "timeout", target |-> "gemini"]
  ELSE NewItem

\* the record that the cycle stored for a done item
DoneRecord(i, parsedResult) ==
  [id |-> i, sampleId |-> i, rawResponse |-> ReplyObject, parsed |-> parsedResult.parsed,
   ok |-> parsedResult.ok, error |-> ResultError(parsedResult.ok, parsedResult.parsed),
   target |-> "gemini", attempt |-> 0]

\* a stopped loop whose items earlier one-item cycles have settled in part,
\* at the point where handleStart has stored the settings of a new start
\* request and is about to switch the loop on
InitSelection ==
  /\ \E st \in [ItemIds -> {"pending", "done", "error"}] :
       /\ queue = [i \in ItemIds |-> SettledItem(st[i])]
       /\ results = [i \in { j \in ItemIds : st[j] = "done" } |->
                       DoneRecord(i, parseSingleResponse(ReplyObject, [id |-> i, retries |-> 0]))]
  /\ running = FALSE
  /\ timer = "none"
  /\ processing = FALSE
  /\ settings \in [batchSize : BatchSizes, outputCountMode : {"match_input"}]
  /\ lockedTarget = "none"
  /\ cyc = [s \in Slots |-> IdleCycle]
  /\ rec = [h \in Handlers |-> IF h = "start" THEN [IdleRecon EXCEPT !.pc = "persist"]
                               ELSE IdleRecon]
  /\ retry = IdleRetry
  /\ nextBatch = 0
  /\ crashes = 0
  /\ env = 0
  /\ pausedMidCycle = FALSE
  /\ page = QuietPage(<<>>)
  /\ content = IdleContent

\* the start of the loop and the selection of its first cycle
NextSelection ==
  \/ StartFinish
  \/ \E s \in Slots : Select(s)

SpecSelection == InitSelection /\ [][NextSelection]_vars

\* the tokens of the short replies
ReplyAlphabet ==
  {"[", "]", "{", "}", ",", QUOTE, NL, FENCE, "w", "id:1", "id:3", "out:a", "ok:false"}

\* the length up to which every reply over the alphabet is explored
MaxShortReply == 2

\* longer replies: fenced, nested, with ids in another order, with fewer or
\* more entries than items, as objects without an array, as lines
LongReplies ==
  { ReplyB, ReplyObject, ReplyNotOk,
    <<FENCE, JSONWORD, NL, "[", "{", "id:1", ",", "out:a", "}", "]", NL, FENCE>>,
    <<FENCE, JSONWORD, NL, FENCE>>,
    <<"[", "{", "id:2", "}", ",", "{", "id:1", "}", ",", "{", "id:3", "}", "]">>,
    <<"[", "{", "id:9", ",", "out:a", "}", ",", "{", "out:b", "}", "]">>,
    <<"[", "{", "out:a", "}", ",", "{", "out:b", "}", ",", "{", "out:c", "}", "]">>,
    <<"[", "{", "id:1", "}", ",", "{", "id:1", ",", "out:b", "}", ",", "{", "sampleId:2", "}", "]">>,
    <<"w", "{", "id:2", ",", "out:b", "}", "w", "{", "id:1", ",", "out:a", "}", NL, "{", "id:3", "}">>,
    <<"{", "id:9", ",", "out:a", "}", NL, "{", "out:b", "}">>,
    <<"{", "id:1", ",", "out:a", "}", "{", "id:1", ",", "out:a", "}", "{", "id:2", "}">>,
    <<"{", "id:1", "out:a", "}", NL, "{", "id:2", "text:t", QUOTE, "}", NL, "w">>,
    <<"{", "id:3", "out:c", "}">>,
    <<"{", "{", "}">>,
    <<BSLASH, "{", "id:1", "}", "w", "{", "id:1", "}">>,
    <<"w", "id:2", "out:b", NL, "id:1", "text:t", "w", NL, "id:3", "w">>,
    <<"w", NL, "w", NL, NL, "w">>,
    <<"w", NL, "w">>,
    <<"id:3", "out:a", NL, "w", "id:3", "w", NL, "id:9", "text:t">>,
    <<"{", "id:1", ",", "out:a", ",", "ok:null", "}">>,
    <<"{", "id:9", ",", "text:t", ",", "ok:true", "}">> }

\* the replies explored, taken as the message of the content script carries
\* them (an empty reply is a failure of the driver)
ReconcileReplies ==
  LongReplies \cup UNION { [1..n -> ReplyAlphabet] : n \in 1..MaxShortReply }

\* the driver call returns one of the replies explored
ReplyArrives(s) ==
  /\ cyc[s].pc = "submit"
  /\ \E raw \in ReconcileReplies : Resumes(s, [ok |-> TRUE, reply |-> raw, error |-> ""])
  /\ UNCHANGED <<queue, results, running, timer, processing, settings, lockedTarget, rec,
                 retry, nextBatch, crashes, env, pausedMidCycle, page, content>>

\* the first cycle after a first start has marked its batch, the first n
\* items of the queue, and has sent the prompt
InitReconcile ==
  /\ \E n \in 1..NumItems :
       /\ queue = [i \in ItemIds |->
                    IF i <= n THEN [NewItem EXCEPT !.status = "inflight", !.target = "gemini"]
                    ELSE NewItem]
       /\ cyc = [s \in Slots |->
                  IF s = 1
                    THEN [IdleCycle EXCEPT !.pc = "submit", !.limit = n, !.target = "gemini",
                            !.items = [ i \in 1..n |-> [id |-> i, retries |-> 0] ],
                            !.prompt = buildBatchPrompt([ i \in 1..n |-> [id |-> i, retries |-> 0] ],
                                                        DEFAULT_PROMPT)]
                  ELSE IdleCycle]
       /\ settings \in [batchSize : {n}, outputCountMode : {"match_input", "allow_mismatch"}]
  /\ results = [r \in {} |-> 0]
  /\ running = TRUE
  /\ timer = "none"
  /\ processing = TRUE
  /\ lockedTarget = "gemini"
  /\ rec = [h \in Handlers |-> IdleRecon]
  /\ retry = IdleRetry
  /\ nextBatch = 0
  /\ crashes = 0
  /\ env = 0
  /\ pausedMidCycle = FALSE
  /\ page = QuietPage(<<>>)
  /\ content = IdleContent

\* the reply of the driver, and the writes of its outcome
NextReconcile ==
  \/ \E s \in Slots : ReplyArrives(s)
  \/ \E s \in Slots : PutResult(s)
  \/ \E s \in Slots : UpdStatus(s)
  \/ \E s \in Slots : BatchPut(s)
  \/ \E s \in Slots : BatchUpd(s)

SpecReconcile == InitReconcile /\ [][NextReconcile]_vars

----------------------------------------------------------------------------
(* The content script of a chat page: handlePrompt and waitForReply.  The  *)
(* page answers one prompt at a time; a prompt is sent to a page at rest.  *)
(* The delays of the page are arbitrary, so a timer that is armed may fire *)
(* before the next change of the page.                                     *)

\* prompts sent to the page in one behaviour
MaxPrompts == 2

\* the pieces in which the page renders a reply
ReplyPieces == 3

\* readLatestReply() || "": the text of the last assistant message
readLatestReply(pg) ==
  IF pg.replies = <<>> THEN NoText ELSE pg.replies[Len(pg.replies)]

\* readLatestReply() || last
latestOr(pg, last) == IF readLatestReply(pg) # NoText THEN readLatestReply(pg) ELSE last

\* a stop button is on the page
isGenerating(pg) == pg.stage = "generating"

\* the callback of the MutationObserver after the page became pg
observed(pg, c) ==
  IF c.pc = "wait" /\ readLatestReply(pg) # NoText
    THEN [c EXCEPT !.last = readLatestReply(pg), !.settleTimer = TRUE]
  ELSE c

\* run_prompt: handlePrompt fills the input and sends, and waitForReply takes
\* its baseline, starts the observer and arms both timers; or no input is found
HandlePrompt ==
  /\ content.pc # "wait"
  /\ content.prompt < MaxPrompts
  /\ page.stage = "quiet"
  /\ \/ /\ page' = [page EXCEPT !.stage = "asked", !.prompt = content.prompt + 1]
        /\ content' = [pc |-> "wait", prompt |-> content.prompt + 1,
                       last |-> readLatestReply(page), settleTimer |-> TRUE,
                       reply |-> NoText, error |-> NoError]
     \/ /\ content' = [IdleContent EXCEPT !.pc = "rejected", !.prompt = content.prompt + 1,
                                           !.error = "input_not_found"]
        /\ UNCHANGED page
  /\ UNCHANGED <<queue, results, running, timer, processing, settings, lockedTarget, cyc,
                 rec, retry, nextBatch, crashes, env, pausedMidCycle>>

\* the page shows the prompt as a message of the user
PageEchoesPrompt ==
  /\ page.stage = "asked"
  /\ page' = [page EXCEPT !.stage = "echoed"]
  /\ content' = observed(page', content)
  /\ UNCHANGED <<queue, results, running, timer, processing, settings, lockedTarget, cyc,
                 rec, retry, nextBatch, crashes, env, pausedMidCycle>>

\* the page begins to generate: the stop button appears
PageStartsGenerating ==
  /\ page.stage \in {"asked", "echoed"}
  /\ page' = [page EXCEPT !.stage = "generating"]
  /\ content' = observed(page', content)
  /\ UNCHANGED <<queue, results, running, timer, processing, settings, lockedTarget, cyc,
                 rec, retry, nextBatch, crashes, env, pausedMidCycle>>

\* the page renders the next piece of the reply, the first in a new message
PageRenders ==
  /\ page.stage = "generating"
  /\ IF readLatestReply(page).prompt = page.prompt /\ readLatestReply(page) # NoText
       THEN /\ readLatestReply(page).len < ReplyPieces
            /\ page' = [page EXCEPT !.replies[Len(page.replies)].len = @ + 1]
     ELSE page' = [page EXCEPT !.replies = Append(@, Text(page.prompt, 1))]
  /\ content' = observed(page', content)
  /\ UNCHANGED <<queue, results, running, timer, processing, settings, lockedTarget, cyc,
                 rec, retry, nextBatch, crashes, env, pausedMidCycle>>

\* the reply is complete: the stop button goes
PageCompletes ==
  /\ page.stage = "generating"
  /\ readLatestReply(page) = Text(page.prompt, ReplyPieces)
  /\ page' = [page EXCEPT !.stage = "quiet"]
  /\ content' = observed(page', content)
  /\ UNCHANGED <<queue, results, running, timer, processing, settings, lockedTarget, cyc,
                 rec, retry, nextBatch, crashes, env, pausedMidCycle>>

\* the settle timer fires: finishIfSettled
finishIfSettled ==
  /\ content.pc = "wait"
  /\ content.settleTimer
  /\ content' =
       IF /\ latestOr(page, content.last) # NoText
          /\ ~isGenerating(page)
          /\ latestOr(page, content.last) = content.last
         THEN [content EXCEPT !.pc = "resolved", !.settleTimer = FALSE,
                               !.reply = latestOr(page, content.last)]
       ELSE [content EXCEPT !.settleTimer = FALSE]
  /\ UNCHANGED <<queue, results, running, timer, processing, settings, lockedTarget, cyc,
                 rec, retry, nextBatch, crashes, env, pausedMidCycle, page>>

\* the timeout of waitForReply fires
ReplyTimeout ==
  /\ content.pc = "wait"
  /\ content' =
       IF latestOr(page, content.last) # NoText
         THEN [content EXCEPT !.pc = "resolved", !.settleTimer = FALSE,
                               !.reply = latestOr(page, content.last)]
       ELSE [content EXCEPT !.pc = "rejected", !.settleTimer = FALSE, !.error = "timeout"]
  /\ UNCHANGED <<queue, results, running, timer, processing, settings, lockedTarget, cyc,
                 rec, retry, nextBatch, crashes, env, pausedMidCycle, page>>

\* a page at rest, new or with the reply of an earlier conversation on it,
\* and a content script that has run no prompt
InitDriver ==
  /\ queue = [i \in ItemIds |-> NewItem]
  /\ results = [r \in {} |-> 0]
  /\ running = FALSE
  /\ timer = "none"
  /\ processing = FALSE
  /\ settings = DEFAULT_SETTINGS
  /\ lockedTarget = "none"
  /\ cyc = [s \in Slots |-> IdleCycle]
  /\ rec = [h \in Handlers |-> IdleRecon]
  /\ retry = IdleRetry
  /\ nextBatch = 0
  /\ crashes = 0
  /\ env = 0
  /\ pausedMidCycle = FALSE
  /\ page \in {QuietPage(<<>>), QuietPage(<<Text(0, ReplyPieces)>>)}
  /\ content = IdleContent

NextDriver ==
  \/ HandlePrompt
  \/ PageEchoesPrompt
  \/ PageStartsGenerating
  \/ PageRenders
  \/ PageCompletes
  \/ finishIfSettled
  \/ ReplyTimeout

SpecDriver == InitDriver /\ [][NextDriver]_vars

----------------------------------------------------------------------------
(* Properties.                                                             *)

ActiveCycles == { s \in Slots : cyc[s].pc # "idle" }

\* C1: at most one dispatch cycle executes at any time; a trigger that
\* arrives while a cycle is processing starts no second one.
C1_SingleCycle ==
  /\ Cardinality(ActiveCycles) <= 1
  /\ processing <=> ActiveCycles # {}

\* a cycle is waiting for the driver while the delay timer of the previous
\* cycle is still armed and the loop is running: a trigger is about to arrive
C1_Witness ==
  /\ \E s \in Slots : cyc[s].pc = "submit"
  /\ running
  /\ timer = "armed"

StatusChanged(i, from, to) == queue[i].status = from /\ queue'[i].status = to

\* C2: every status change is pending->inflight, inflight->done,
\* inflight->error, inflight->pending (made by the recovery only) or
\* error->pending (made by the retry action only).
C2_OnlyLegalTransitions ==
  [][\A i \in ItemIds :
       queue'[i].status # queue[i].status =>
         \/ StatusChanged(i, "pending", "inflight")
         \/ StatusChanged(i, "inflight", "done")
         \/ StatusChanged(i, "inflight", "error")
         \/ StatusChanged(i, "inflight", "pending") /\ rec' # rec
         \/ StatusChanged(i, "error", "pending") /\ retry' # retry]_vars

\* slot s takes a step of its own (the service worker is not restarted)
CycleStep(s) == cyc'[s] # cyc[s] /\ crashes' = crashes

\* processBatch of slot s returns after processOne ran from position pc
CycleReturnsFrom(s, pc) == CycleStep(s) /\ cyc[s].pc = pc /\ cyc'[s].pc = "idle"

\* handler h takes a step of its recovery from position pc
ReconStep(h, pc) == rec[h].pc = pc /\ rec'[h].pc # pc /\ crashes' = crashes

ReconItem(h) == rec[h].list[rec[h].idx]

\* C3: the recovery reads the record stored under the id of each item it
\* found inflight; with a record the item takes done (ok) or error (not ok),
\* without one it becomes pending with lastError
\* "recovered_after_pause_or_restart" and retries one above the value found.
C3_RecoveryOutcome ==
  [][\A h \in Handlers :
       /\ ReconStep(h, "get") =>
            LET id == ReconItem(h).id
            IN /\ rec'[h].existing.found <=> id \in DOMAIN results
               /\ id \in DOMAIN results => rec'[h].existing.ok = results[id].ok
       /\ ReconStep(h, "upd") =>
            LET id == ReconItem(h).id
            IN IF rec[h].existing.found
                 THEN queue'[id].status = (IF rec[h].existing.ok THEN "done" ELSE "error")
               ELSE /\ queue'[id].status = "pending"
                    /\ queue'[id].lastError = "recovered_after_pause_or_restart"
                    /\ queue'[id].retries = ReconItem(h).retries + 1]_vars

\* after a restart the recovery has resolved two items: the first adopted the
\* error of its stored record, the second had none and is pending again
C3_Witness ==
  \E h \in Handlers :
    /\ crashes > 0
    /\ rec[h].pc = "get" /\ rec[h].idx = 3
    /\ LET a == rec[h].list[1].id
           b == rec[h].list[2].id
       IN /\ a \in DOMAIN results /\ ~results[a].ok /\ queue[a].status = "error"
          /\ b \notin DOMAIN results /\ queue[b].status = "pending"
          /\ queue[b].lastError = "recovered_after_pause_or_restart"

\* C4: the recovery writes a status other than inflight to every item it
\* found inflight, and returns only after the write for its last item.
C4_RecoveryLeavesNoInflight ==
  [][\A h \in Handlers :
       /\ ReconStep(h, "read") /\ rec'[h].pc # "get" => WithStatus("inflight") = {}
       /\ ReconStep(h, "read") /\ rec'[h].pc = "get" =>
            { rec'[h].list[i].id : i \in 1..Len(rec'[h].list) } = WithStatus("inflight")
       /\ ReconStep(h, "get") => rec'[h].pc = "upd"
       /\ ReconStep(h, "upd") =>
            /\ queue'[ReconItem(h).id].status # "inflight"
            /\ rec'[h].pc # "get" => rec[h].idx = Len(rec[h].list)
            /\ rec'[h].pc = "get" => rec'[h].idx = rec[h].idx + 1]_vars

\* the service worker was restarted with items inflight and the startup
\* recovery has completed: an item was recovered and none is inflight
C4_Witness ==
  /\ crashes > 0
  /\ \A h \in Handlers : rec[h].pc = "idle"
  /\ \E i \in ItemIds : /\ queue[i].status = "pending"
                        /\ queue[i].lastError = "recovered_after_pause_or_restart"
  /\ WithStatus("inflight") = {}

\* C5 as stated: a cycle that submitted its batch to the driver has, when it
\* returns, created as many records as the batch has items or exactly one.
C5_RecordCount ==
  [][\A s \in Slots : \A pc \in {"fail", "upd", "bupd"} :
       CycleReturnsFrom(s, pc) => cyc[s].made \in {Len(cyc[s].items), 1}]_vars

\* C5: a cycle whose driver call returned a reply creates one record per item
\* of the batch (per-item mode) or exactly one (batch-level mode); a cycle
\* whose driver call failed creates none.
C5_RecordCountByOutcome ==
  [][\A s \in Slots :
       /\ CycleReturnsFrom(s, "upd") =>
            /\ cyc[s].out.mode = "per_item"
            /\ cyc[s].made = Len(cyc[s].items)
       /\ CycleReturnsFrom(s, "bupd") =>
            /\ cyc[s].out.mode = "batch_level"
            /\ cyc[s].made = 1
       /\ CycleReturnsFrom(s, "fail") => cyc[s].made = 0
       /\ CycleStep(s) /\ cyc[s].pc = "put" =>
            /\ cyc'[s].made = cyc[s].made + 1
            /\ cyc[s].out.entries[cyc[s].idx].item.id \in DOMAIN results'
       /\ CycleStep(s) /\ cyc[s].pc # "put" /\ cyc[s].pc # "bput" =>
            /\ results' = results
            /\ cyc'[s].pc # "idle" => cyc'[s].made = cyc[s].made]_vars

\* a cycle is about to return from a three-item batch with three records made
C5_Witness ==
  \E s \in Slots :
    /\ cyc[s].pc = "upd"
    /\ Len(cyc[s].items) = 3
    /\ cyc[s].idx = 3
    /\ cyc[s].made = 3
    /\ \A i \in BatchIds(cyc[s]) : i \in DOMAIN results

\* the batch of items 1, 2, 3 answered in strict mode by the two-element
\* array with ids 1 and 3
ScenarioB(c) ==
  /\ Len(c.items) = 3
  /\ \A i \in 1..3 : c.items[i].id = i
  /\ c.reply = ReplyB
  /\ ~c.allow

\* C6: in that batch item 2 is recorded as an error with reason
\* missing_result_for_id, items 1 and 3 as ok outcomes.
C6_MissingIdIsError ==
  [][\A s \in Slots :
       /\ CycleStep(s) /\ cyc[s].pc = "upd" /\ ScenarioB(cyc[s]) /\ cyc[s].idx = 2 =>
            /\ ~results[2].ok
            /\ results[2].error = "missing_result_for_id"
            /\ queue'[2].status = "error"
       /\ CycleReturnsFrom(s, "upd") /\ ScenarioB(cyc[s]) =>
            /\ results[1].ok /\ results[3].ok
            /\ queue'[3].status = "done"]_vars

\* C7: a batch-level outcome writes exactly one record, stored under a fresh
\* id that is also its sampleId; its parsed.sampleIds lists the ids of the
\* batch's items in dispatch order, and the cycle writes done to every item
\* of the batch.
C7_BatchLevelRecord ==
  [][\A s \in Slots :
       /\ CycleStep(s) /\ cyc[s].pc = "submit" /\ cyc'[s].pc # "fail" =>
            (cyc'[s].out.mode = "batch_level" <=> cyc'[s].pc = "bput")
       /\ CycleStep(s) /\ cyc[s].pc = "bput" =>
            LET bid == cyc'[s].bid
            IN /\ bid \notin DOMAIN results
               /\ bid \notin ItemIds
               /\ DOMAIN results' = DOMAIN results \cup {bid}
               /\ \A r \in DOMAIN results : results'[r] = results[r]
               /\ results'[bid].id = bid
               /\ results'[bid].sampleId = bid
               /\ results'[bid].ok
               /\ results'[bid].parsed.sampleIds =
                    [ i \in 1..Len(cyc[s].items) |-> cyc[s].items[i].id ]
               /\ cyc'[s].pc = "bupd"
       /\ CycleStep(s) /\ cyc[s].pc = "bupd" =>
            /\ cyc[s].made = 1
            /\ cyc'[s].pc = "idle"
            /\ results' = results
            /\ \A i \in BatchIds(cyc[s]) : queue'[i].status = "done"]_vars

\* a batch-level record covers items 1, 2, 3, which are all done
C7_Witness ==
  /\ ActiveCycles = {}
  /\ \E b \in DOMAIN results :
       /\ b \notin ItemIds
       /\ results[b].sampleId = b
       /\ results[b].parsed.sampleIds = <<1, 2, 3>>
  /\ \A i \in ItemIds : queue[i].status = "done"

\* no extraction finds anything in the reply
Malformed(raw) ==
  /\ extractJSONObject(raw).t = "null"
  /\ ~IsArray(extractJSONArray(raw))
  /\ extractObjectList(raw) = Null
  /\ extractRawObjectEntries(raw) = Null

\* the cycle of slot s has recorded an error outcome for every item of its
\* batch and this step leaves none of them inflight
AllErrorOutcomes(s) ==
  \A i \in BatchIds(cyc[s]) :
    /\ i \in DOMAIN results
    /\ ~results[i].ok
    /\ queue'[i].status # "inflight"

FailWrite(s) ==
  LET c == cyc[s]
      item == c.items[c.idx]
  IN /\ queue'[item.id].status = "error"
     /\ queue'[item.id].retries = item.retries + 1
     /\ queue'[item.id].lastError = c.error

\* C9 as stated: on a driver failure every item becomes error with retries
\* one higher and the reported reason, and the loop schedules the next cycle.
C9_FailureSchedulesNext ==
  [][\A s \in Slots :
       /\ CycleStep(s) /\ cyc[s].pc = "fail" => FailWrite(s)
       /\ CycleReturnsFrom(s, "fail") => timer' = "armed"]_vars

\* C9: on a driver failure the cycle writes every item of the batch as error
\* with lastError the reported reason (send_failed when none is reported)
\* and retries one above the value read at selection; the cycle counts as
\* work done, and the next cycle is scheduled when the loop is still running
\* at the end of the cycle.
C9_FailureSchedulesNextIfRunning ==
  [][\A s \in Slots :
       /\ CycleStep(s) /\ cyc[s].pc = "submit" /\ cyc'[s].pc = "fail" =>
            cyc'[s].error \in {"timeout", "send_failed"}
       /\ CycleStep(s) /\ cyc[s].pc = "fail" =>
            /\ FailWrite(s)
            /\ cyc'[s].pc = "idle" <=> cyc[s].idx = Len(cyc[s].items)
       /\ CycleReturnsFrom(s, "fail") =>
            /\ ~processing'
            /\ running' = running
            /\ lockedTarget' = lockedTarget
            /\ IF running THEN timer' = "armed" ELSE timer' = timer]_vars

\* a driver failure has been written to all three items and the next cycle
\* is scheduled
C9_Witness ==
  /\ ActiveCycles = {}
  /\ running
  /\ timer = "armed"
  /\ \A i \in ItemIds :
       /\ queue[i].status = "error"
       /\ queue[i].retries = 1
       /\ queue[i].lastError = "timeout"

\* C10: a cycle selects pending items only, and an item leaves status error
\* only by the write of a retry.
C10_ErrorNeedsRetry ==
  [][/\ \A s \in Slots :
          CycleStep(s) /\ cyc[s].pc = "select" /\ cyc'[s].pc = "locate" =>
            \A i \in BatchIds(cyc'[s]) : queue[i].status = "pending"
     /\ \A i \in ItemIds :
          queue[i].status = "error" /\ queue'[i].status # "error" =>
            /\ retry.pc = "write"
            /\ retry' = IdleRetry]_vars

----------------------------------------------------------------------------
(* Pause, stop and wake-up of the loop.                                    *)

\* processBatch passes its guard in this step: a slot leaves "idle"
CycleStarts == \E s \in Slots : cyc[s].pc = "idle" /\ cyc'[s].pc = "select"

\* the status write of a cycle past the inflight marking lands in this step
WritesOutcome(s) ==
  /\ CycleStep(s)
  /\ cyc[s].pc \in {"fail", "upd", "bupd"}

\* the items whose status the step of slot s writes
WrittenIds(s) ==
  IF cyc[s].pc = "bupd" THEN BatchIds(cyc[s])
  ELSE IF cyc[s].pc = "fail" THEN {cyc[s].items[cyc[s].idx].id}
  ELSE {cyc[s].out.entries[cyc[s].idx].item.id}

\* C11: a pause that arrives while a cycle is past the inflight marking
\* leaves that cycle alone (its locals and the stores are untouched by the
\* pause, and each of its remaining status writes still stores done or
\* error), and from that pause on no cycle starts until control:start is
\* received again.
C11_PauseSuppressesNextCycle ==
  [][ /\ (pausedMidCycle' /\ env' # env) => (cyc' = cyc /\ queue' = queue /\ results' = results)
      /\ \A s \in Slots :
           (pausedMidCycle /\ WritesOutcome(s)) =>
             \A i \in WrittenIds(s) : queue'[i].status \in {"done", "error"}
      /\ CycleStarts => ~pausedMidCycle' ]_vars

\* handleStart resumes after its awaits and turns the loop on
StartCompletes == rec["start"].pc = "persist" /\ rec'["start"].pc = "idle" /\ crashes' = crashes

\* the query of the cycle in slot s returns no pending item in this step
FindsNothing(s) == CycleStep(s) /\ cyc[s].pc = "select" /\ cyc'[s].pc = "idle"

IdleWithWork == ~processing /\ WithStatus("pending") # {}

\* the lowest pending item, which every selection returns first
FirstPending == SortedBySeq(WithStatus("pending"))[1]

\* the query of the cycle in slot s returns pending items, the lowest first
PicksUpWork(s) ==
  /\ Select(s)
  /\ cyc'[s].pc = "locate"
  /\ cyc'[s].items[1].id = FirstPending

\* C13 as stated: whenever no cycle is processing and an item is pending,
\* queue:flush starts a dispatch cycle.
C13_FlushWakesIdleLoop == IdleWithWork => ENABLED (Flush /\ CycleStarts)

\* C13, for a loop that is switched on: whenever the loop is running, no
\* cycle is processing and an item is pending, queue:flush starts a dispatch
\* cycle (processing is set, a cycle issues its query), and the query of a
\* cycle returns the pending items, lowest seq first.
C13_FlushWakesRunningLoop ==
  /\ (running /\ IdleWithWork) => ENABLED (Flush /\ CycleStarts /\ processing')
  /\ \A s \in Slots :
       (cyc[s].pc = "select" /\ WithStatus("pending") # {}) => ENABLED PicksUpWork(s)

\* a cycle started by queue:flush has picked up the pending work: the timer
\* of the previous cycle is still armed, so neither it nor handleStart
\* started this cycle
C13_Witness ==
  /\ running /\ processing /\ timer = "armed"
  /\ \E s \in Slots : cyc[s].pc = "locate" /\ Len(cyc[s].items) >= 1

----------------------------------------------------------------------------
(* Selection.                                                              *)

\* sel lists, in ascending seq order, the n pending items of lowest seq, or
\* all pending items when there are fewer than n
IsLowestPending(sel, pending, n) ==
  /\ Len(sel) = IF n < Cardinality(pending) THEN n ELSE Cardinality(pending)
  /\ \A k \in 1..Len(sel) : sel[k] \in pending
  /\ \A k \in 1..(Len(sel) - 1) : SeqOf(sel[k]) < SeqOf(sel[k + 1])
  /\ \A p \in pending :
       (\A k \in 1..Len(sel) : sel[k] # p) => \A k \in 1..Len(sel) : SeqOf(sel[k]) < SeqOf(p)

\* the ids the query of slot s returned in this step (none when processOne
\* returned at once)
SelectedIds(s) ==
  IF cyc'[s].pc = "locate" THEN [ k \in 1..Len(cyc'[s].items) |-> cyc'[s].items[k].id ]
  ELSE <<>>

\* C14: a cycle that starts takes max(1, batchSize) as its limit, and its
\* query returns exactly the min(limit, number of pending items) pending
\* items of lowest seq, in ascending seq order; processOne goes on with that
\* list, or returns at once when it is empty.  The list is determined by the
\* stored items and the limit, so two selections without a write in between
\* agree.
C14_SelectsLowestPending ==
  [][ /\ \A s \in Slots :
           (cyc[s].pc = "idle" /\ cyc'[s].pc = "select") =>
             cyc'[s].limit = (IF settings.batchSize > 1 THEN settings.batchSize ELSE 1)
      /\ \A s \in Slots :
           (CycleStep(s) /\ cyc[s].pc = "select") =>
             /\ IsLowestPending(SelectedIds(s), WithStatus("pending"), cyc[s].limit)
             /\ cyc'[s].pc = (IF WithStatus("pending") = {} THEN "idle" ELSE "locate") ]_vars

\* a selection that had to skip and to cut: item 1 is done, items 2 and 3
\* are pending, the batch size is 1 and the query returned item 2 alone
C14_Witness ==
  /\ settings.batchSize = 1
  /\ queue[1].status = "done"
  /\ WithStatus("pending") = {2, 3}
  /\ \E s \in Slots : cyc[s].pc = "locate" /\ cyc[s].items = <<Snapshot(2)>>

----------------------------------------------------------------------------
(* Marking and records.                                                    *)

\* the prompt of the cycle in slot s is handed to the driver in this step
Submits(s) == CycleStep(s) /\ cyc[s].pc # "submit" /\ cyc'[s].pc = "submit"

\* C15: the prompt of a batch is handed to the driver only by the step in
\* which the inflight writes of the batch have landed: at that moment every
\* item of the batch is stored as inflight with the target of the cycle, and
\* none is stored as pending.
C15_InflightBeforeSubmit ==
  [][ \A s \in Slots :
        Submits(s) =>
          /\ cyc[s].pc = "mark"
          /\ cyc'[s].items = cyc[s].items
          /\ \A i \in BatchIds(cyc[s]) :
               queue'[i].status = "inflight" /\ queue'[i].target = cyc[s].target ]_vars

\* the driver holds the prompt of a whole-queue batch, every item of which
\* is stored as inflight
C15_Witness ==
  \E s \in Slots :
    /\ cyc[s].pc = "submit"
    /\ BatchIds(cyc[s]) = ItemIds
    /\ \A i \in ItemIds : queue[i].status = "inflight"

\* C16: a stored ResultRecord stays in the store and keeps every field, in
\* every step of the program.
C16_RecordsNeverReplaced ==
  [][ \A r \in DOMAIN results :
        r \in DOMAIN results' /\ results'[r] = results[r] ]_vars

----------------------------------------------------------------------------
(* Reconciliation of a reply with a multi-item batch.                      *)

\* the reply of the cycle in slot s is reconciled in this step
Reconciles(s) ==
  /\ CycleStep(s)
  /\ cyc[s].pc = "submit"
  /\ cyc'[s].pc \in {"put", "bput"}

\* the tier of parseBatchResponse that answers a reply
TierOf(raw) ==
  IF IsArray(extractJSONArray(raw)) THEN "array"
  ELSE IF extractObjectList(raw) # Null THEN "objects"
  ELSE IF extractRawObjectEntries(raw) # Null THEN "lines"
  ELSE "none"

\* C17: a reply is routed to a batch-level outcome only when the batch has
\* more than one item and outputCountMode is allow_mismatch at that moment;
\* with match_input the reconciliation of a multi-item batch is per item and
\* holds exactly one outcome for each item of the batch, in batch order.
C17_BatchLevelOnlyIfAllowed ==
  [][ \A s \in Slots :
        Reconciles(s) =>
          /\ cyc'[s].out.mode = "batch_level" =>
               (settings.outputCountMode = "allow_mismatch" /\ Len(cyc[s].items) > 1)
          /\ (cyc'[s].pc = "bput") = (cyc'[s].out.mode = "batch_level")
          /\ (settings.outputCountMode = "match_input" /\ Len(cyc[s].items) > 1) =>
               /\ cyc'[s].out.mode = "per_item"
               /\ Len(cyc'[s].out.entries) = Len(cyc[s].items)
               /\ \A k \in 1..Len(cyc[s].items) :
                    cyc'[s].out.entries[k].item = cyc[s].items[k] ]_vars

\* strict mode has reconciled a batch of three items with a reply that holds
\* fewer entries, per item
C17_Witness ==
  \E s \in Slots :
    /\ cyc[s].pc = "put"
    /\ ~cyc[s].allow
    /\ Len(cyc[s].items) = NumItems
    /\ TierOf(cyc[s].reply) = "array"
    /\ Len(extractJSONArray(cyc[s].reply).e) < NumItems
    /\ Len(cyc[s].out.entries) = NumItems

\* the outcome stored for entry k of a per-item reconciliation is an error
\* with the given reason
ErrorEntry(e, item, reason, raw) ==
  /\ e.item = item
  /\ ~e.ok
  /\ e.parsed["error"] = reason
  /\ ResultError(e.ok, e.parsed) = reason
  /\ e.raw = raw

\* C18: when no tier extracts anything from the reply to a multi-item batch,
\* the outcome under allow_mismatch is batch-level and built from a null
\* candidate (no output count, the unwrapped reply as its text, the ids of
\* the batch), and the outcome under match_input is per item, an error with
\* reason batch_parse_failed for every item of the batch.
C18_NoStructureOutcome ==
  [][ \A s \in Slots :
        (Reconciles(s) /\ Len(cyc[s].items) > 1 /\ TierOf(cyc'[s].reply) = "none") =>
          LET out == cyc'[s].out
              raw == cyc'[s].reply
              items == cyc[s].items
          IN IF settings.outputCountMode = "allow_mismatch"
               THEN /\ out.mode = "batch_level"
                    /\ out.raw = raw
                    /\ out.parsed.outputCount = NoCount
                    /\ out.parsed.output_text = unwrapJsonish(raw)
                    /\ out.parsed.inputCount = Len(items)
                    /\ out.parsed.sampleIds = [ k \in 1..Len(items) |-> items[k].id ]
             ELSE /\ out.mode = "per_item"
                  /\ Len(out.entries) = Len(items)
                  /\ \A k \in 1..Len(items) :
                       ErrorEntry(out.entries[k], items[k], "batch_parse_failed", raw) ]_vars

\* a reply without structure to a three-item batch has been reconciled, in
\* strict mode as three errors
C18_Witness ==
  \E s \in Slots :
    /\ cyc[s].pc = "put"
    /\ ~cyc[s].allow
    /\ Len(cyc[s].items) = NumItems
    /\ TierOf(cyc[s].reply) = "none"
    /\ \A k \in 1..NumItems : cyc[s].out.entries[k].parsed["error"] = "batch_parse_failed"

\* the ids of the entries that the answering tier extracts from the reply
\* (EmptyId for an entry without id)
TierEntryIds(raw, items) ==
  IF TierOf(raw) = "array"
    THEN [ i \in 1..Len(extractJSONArray(raw).e) |-> EntryId(extractJSONArray(raw).e[i]) ]
  ELSE IF TierOf(raw) = "objects"
    THEN [ i \in 1..Len(extractObjectList(raw)) |-> EntryId(extractObjectList(raw)[i]) ]
  ELSE IF TierOf(raw) = "lines"
    THEN [ i \in 1..Len(extractRawObjectEntries(raw)) |->
           EntryId(looseObjectsOf(extractRawObjectEntries(raw), items)[i]) ]
  ELSE <<>>

\* item k of the batch maps to no entry: none carries its id and there is
\* no entry at its position
Unmapped(ids, items, k) ==
  /\ k > Len(ids)
  /\ \A i \in 1..Len(ids) : ids[i] # items[k].id

\* C19: in strict mode, whichever tier answers the reply to a multi-item
\* batch, an item that maps to no entry gets an error outcome with reason
\* missing_result_for_id, and no other item gets that outcome.
C19_SameMissingPolicy ==
  [][ \A s \in Slots :
        (Reconciles(s) /\ Len(cyc[s].items) > 1 /\ settings.outputCountMode = "match_input"
           /\ TierOf(cyc'[s].reply) # "none") =>
          \A k \in 1..Len(cyc[s].items) :
            LET e == cyc'[s].out.entries[k]
                missing == ~e.ok /\ "error" \in DOMAIN e.parsed
                             /\ e.parsed["error"] = "missing_result_for_id"
            IN missing = Unmapped(TierEntryIds(cyc'[s].reply, cyc[s].items), cyc[s].items, k) ]_vars

----------------------------------------------------------------------------
(* What stops the loop.                                                    *)

\* C20: apart from a pause and a restart of the service worker, the only
\* step that switches a running loop off is the return of a cycle whose
\* query found no pending item.
C20_OnlyEmptyQueueStops ==
  [][ (running /\ ~running' /\ env' = env) => \E s \in Slots : FindsNothing(s) ]_vars

----------------------------------------------------------------------------
(* The explicit retry.                                                     *)

\* the query of retryErrors returns in this step
RetryReads == retry.pc = "idle" /\ retry'.pc = "write"

\* the writes of retryErrors land in this step
RetryWrites == retry.pc = "write" /\ retry'.pc = "idle"

\* the ids of the items that retryErrors read
RetryIds == { retry.errors[k].id : k \in 1..Len(retry.errors) }

\* C21: the retry reads exactly the items whose status is error, and its
\* write finds each of them still in error, sets it to pending with lastError
\* null and retries one above the stored value and touches nothing else of
\* it; every other item, whatever its status, is left as it is.
C21_RetryMovesErrorsOnly ==
  [][ /\ RetryReads =>
           { retry'.errors[k].id : k \in 1..Len(retry'.errors) } = WithStatus("error")
      /\ RetryWrites =>
           \A i \in ItemIds :
             IF i \in RetryIds
               THEN /\ queue[i].status = "error"
                    /\ queue'[i] = [queue[i] EXCEPT !.status = "pending",
                                                    !.lastError = NoError,
                                                    !.retries = queue[i].retries + 1]
             ELSE queue'[i] = queue[i] ]_vars

----------------------------------------------------------------------------
(* The submitted text.                                                     *)

\* the samples of a batch, one per line, without the instruction prompt
SamplesOnly(items) == JoinLines([ i \in 1..Len(items) |-> ItemPrompt(items[i]) ])

\* an earlier batch of the run has settled an item: the loop was started
\* once, nothing else has happened from outside, and an item is done or error
LaterBatchOfRun ==
  /\ env = 1 /\ crashes = 0
  /\ WithStatus("done") \cup WithStatus("error") # {}

\* C22: a batch that is submitted after an earlier batch of the same run
\* has settled is submitted as its samples only, without the instruction
\* prompt.
C22_PromptInFirstBatchOnly ==
  \A s \in Slots :
    (cyc[s].pc = "submit" /\ LaterBatchOfRun) => cyc[s].prompt = SamplesOnly(cyc[s].items)

----------------------------------------------------------------------------
(* The outcome of a single-item batch.                                     *)

\* the cycle in slot s has stored the record of a single-item batch whose
\* reply coerces to one object
SingleCoerced(s) ==
  /\ cyc[s].pc = "upd"
  /\ Len(cyc[s].items) = 1
  /\ coerceSingleObject(cyc[s].reply).t # "null"

\* the output text an object carries, the empty text when it carries none
ObjectText(obj) ==
  IF "output_text" \in DOMAIN obj.m THEN obj.m["output_text"]
  ELSE IF "output" \in DOMAIN obj.m THEN obj.m["output"]
  ELSE IF "text" \in DOMAIN obj.m THEN obj.m["text"]
  ELSE IF "completion" \in DOMAIN obj.m THEN obj.m["completion"]
  ELSE <<>>

\* the record of the item is keyed by the item and holds the object's text
RecordOfItem(s, obj) ==
  /\ cyc[s].items[1].id \in DOMAIN results
  /\ results[cyc[s].items[1].id].id = cyc[s].items[1].id
  /\ results[cyc[s].items[1].id].parsed["output_text"] = ObjectText(obj)

\* C23 as stated: for a single-item batch whose reply coerces to one JSON
\* object, the record has the item's id and the object's output text, and
\* its ok is true unless the object carries an explicit ok: false.
C23_OkUnlessExplicitFalse ==
  \A s \in Slots :
    SingleCoerced(s) =>
      /\ RecordOfItem(s, coerceSingleObject(cyc[s].reply))
      /\ results[cyc[s].items[1].id].ok =
           ~( /\ "ok" \in DOMAIN coerceSingleObject(cyc[s].reply).m
              /\ coerceSingleObject(cyc[s].reply).m["ok"] = "false" )

\* C23 amended: for a single-item batch whose reply coerces to one JSON
\* object, the record has the item's id and the object's output text, and
\* its ok is true unless the object carries an ok member whose value is
\* falsy (false or null among the values explored).
C23_OkUnlessFalsy ==
  \A s \in Slots :
    SingleCoerced(s) =>
      /\ RecordOfItem(s, coerceSingleObject(cyc[s].reply))
      /\ results[cyc[s].items[1].id].ok =
           ~( /\ "ok" \in DOMAIN coerceSingleObject(cyc[s].reply).m
              /\ coerceSingleObject(cyc[s].reply).m["ok"] \in {"false", "null"} )

\* a reply whose object carries ok: null was stored as a failure; its record
\* holds the object's text under the item's id
C23_Witness ==
  \E s \in Slots :
    /\ SingleCoerced(s)
    /\ "ok" \in DOMAIN coerceSingleObject(cyc[s].reply).m
    /\ coerceSingleObject(cyc[s].reply).m["ok"] = "null"
    /\ ~results[cyc[s].items[1].id].ok
    /\ results[cyc[s].items[1].id].parsed["output_text"] = <<"a">>

----------------------------------------------------------------------------
(* The target of a run.                                                    *)

\* C24: the target is sticky per run: a cycle that finds a target resolved
\* uses that target and resolves nothing, and a resolved target stays until
\* a pause or the removal of its tab clears it, or the run ends.
C24_TargetStickyPerRun ==
  [][ /\ \A s \in Slots :
           (CycleStep(s) /\ cyc[s].pc = "locate" /\ lockedTarget # "none") =>
             /\ cyc'[s].pc = "mark"
             /\ cyc'[s].target = lockedTarget
             /\ lockedTarget' = lockedTarget
      /\ (lockedTarget # "none" /\ lockedTarget' # lockedTarget) =>
           (Pause \/ TabRemoved \/ ~running') ]_vars

\* a later cycle of the first run goes on with the target the run resolved
C24_Witness ==
  \E s \in Slots :
    /\ cyc[s].pc = "mark"
    /\ LaterBatchOfRun
    /\ running
    /\ lockedTarget # "none"
    /\ cyc[s].target = lockedTarget

----------------------------------------------------------------------------
(* Normalization of an entry.                                              *)

\* the cycle in slot s holds the reply it has reconciled
HoldsReply(s) == cyc[s].pc \in {"put", "upd", "bput", "bupd"}

\* the entries a reply offers to normalization: its objects, the object it
\* coerces to, and null
RepliedEntries(raw) ==
  { extractObjectList(raw)[i] : i \in 1..Len(extractObjectList(raw)) }
    \cup {coerceSingleObject(raw), JNull}

\* the members n as an entry
AsEntry(n) == JObj(n, <<>>)

\* C25: normalization is total and idempotent: every entry, with every
\* fallback id, normalizes to an entry with an id and an output text, and
\* normalizing that entry again, with any fallback id, yields it unchanged.
C25_NormalizeIdempotent ==
  \A s \in Slots :
    HoldsReply(s) =>
      \A e \in RepliedEntries(cyc[s].reply) :
        \A f \in ItemIds :
          /\ {"id", "output_text"} \subseteq DOMAIN normalizeParsed(e, f)
          /\ \A g \in ItemIds :
               normalizeParsed(AsEntry(normalizeParsed(e, f)), g) = normalizeParsed(e, f)

\* a reply held an object that names its sample under sampleId and carries
\* no text: normalization gave it that id and the empty text
C25_Witness ==
  \E s \in Slots :
    /\ HoldsReply(s)
    /\ \E e \in RepliedEntries(cyc[s].reply) :
         /\ e.t = "obj"
         /\ "id" \notin DOMAIN e.m
         /\ "sampleId" \in DOMAIN e.m
         /\ normalizeParsed(e, 1)["id"] = 2
         /\ normalizeParsed(e, 1)["output_text"] = <<>>

----------------------------------------------------------------------------
(* The order of the tiers.                                                 *)

\* the cycle in slot s holds the reply of a multi-item batch in which array
\* extraction (after a code fence is stripped) found a JSON array
ArrayFound(s) ==
  /\ HoldsReply(s)
  /\ Len(cyc[s].items) > 1
  /\ IsArray(extractJSONArray(cyc[s].reply))

\* an entry recovered by the line-split tier
FromLineSplit(e) ==
  /\ "parseMode" \in DOMAIN e.parsed
  /\ e.parsed["parseMode"] = "line_split_fallback"

----------------------------------------------------------------------------
(* Replies of freeform lines.                                              *)

\* raw is three non-empty lines of freeform text (no brace, bracket or
\* fence), each with a quoted id member
ThreeIdLines(raw) ==
  /\ \A i \in 1..Len(raw) : raw[i] \notin {"{", "}", "[", "]", FENCE}
  /\ Len(SplitLines(raw, 1, <<>>)) = 3
  /\ \A k \in 1..3 :
       \E i \in 1..Len(SplitLines(raw, 1, <<>>)[k]) :
         /\ IsMember(SplitLines(raw, 1, <<>>)[k][i])
         /\ TokKey(SplitLines(raw, 1, <<>>)[k][i]) = "id"

----------------------------------------------------------------------------
(* Finished items.                                                         *)

\* C28: done is absorbing: no step of the dispatch loop, the recovery or the
\* retry changes the status of an item that is done, under every
\* interleaving of start and pause requests with a running cycle.
C28_DoneIsAbsorbing ==
  [][ \A i \in ItemIds : queue[i].status = "done" => queue'[i].status = "done" ]_vars

----------------------------------------------------------------------------
(* The record a recovery adopts.                                           *)

\* C29: the recovery sets an inflight item to the outcome of a stored record
\* only when the item's latest dispatch wrote that record: an item whose
\* record is of an earlier attempt (it failed, was retried and dispatched
\* again, and no new record was written before the restart) becomes pending.
C29_AdoptsLatestAttemptOnly ==
  [][ \A h \in Handlers :
        ( /\ ReconStep(h, "upd")
          /\ ReconItem(h).id \in DOMAIN results
          /\ results[ReconItem(h).id].attempt < ReconItem(h).retries ) =>
            queue'[ReconItem(h).id].status = "pending" ]_vars

----------------------------------------------------------------------------
(* The reply the content script returns.                                   *)

\* C30: the reply that the content script returns for a prompt was rendered
\* after that prompt was submitted: it is a message that answers this
\* prompt, never one that was on the page before, whatever the delay of the
\* page.
C30_ReplyIsOfThisPrompt ==
  content.pc = "resolved" => content.reply.prompt = content.prompt

----------------------------------------------------------------------------
(* The entry assigned to each item.                                        *)

\* for each item of the batch, the index of the entry of the answering tier
\* that its outcome is taken from, 0 when it is given none
Assigned(raw, items) ==
  IF TierOf(raw) = "objects"
    THEN [ k \in 1..Len(items) |-> IF k <= Len(extractObjectList(raw)) THEN k ELSE 1 ]
  ELSE Picks(TierEntryIds(raw, items), items)

\* C31: in a per-item reconciliation of a multi-item batch no entry of the
\* reply is assigned to two items, and an entry whose id is the id of an
\* item of the batch is assigned to that item only.
C31_EntryAssignedOnce ==
  \A s \in Slots :
    ( /\ HoldsReply(s)
      /\ Len(cyc[s].items) > 1
      /\ cyc[s].out.mode = "per_item"
      /\ TierOf(cyc[s].reply) # "none" ) =>
      \A j, k \in 1..Len(cyc[s].items) :
        (Assigned(cyc[s].reply, cyc[s].items)[j] # 0 /\ j # k) =>
          /\ Assigned(cyc[s].reply, cyc[s].items)[j] # Assigned(cyc[s].reply, cyc[s].items)[k]
          /\ TierEntryIds(cyc[s].reply, cyc[s].items)[Assigned(cyc[s].reply, cyc[s].items)[j]]
               # cyc[s].items[k].id

----------------------------------------------------------------------------
(* A restart between the two writes of a batch-level outcome.              *)

\* a stored batch-level record lists the item among its sampleIds
CoveredByBatch(id) ==
  \E b \in (DOMAIN results) \ ItemIds :
    \E i \in 1..Len(results[b].parsed["sampleIds"]) :
      results[b].parsed["sampleIds"][i] = id

\* C32: when a restart interrupts a batch-level outcome after its record was
\* stored and before the status writes of the covered items, the recovery
\* sets those items to done (so that they are not dispatched again and no
\* second record is made for the batch).
C32_BatchRecordSurvivesCrash ==
  [][ \A h \in Handlers :
        ( /\ ReconStep(h, "upd")
          /\ crashes > 0
          /\ CoveredByBatch(ReconItem(h).id) ) =>
            queue'[ReconItem(h).id].status = "done" ]_vars

----------------------------------------------------------------------------
(* A pause that overtakes a start.                                         *)

\* C33: when a pause is handled after a start request was received, and no
\* later start request is made, the loop is not running once both handlers
\* have finished, and no cycle starts, however the handlers interleave.
C33_PauseAfterStartWins ==
  [][ (StartCompletes /\ rec["start"].overtaken) => (~running' /\ ~CycleStarts) ]_vars

----------------------------------------------------------------------------
(* An undisturbed run: one start on a fresh queue, then only the loop.     *)

\* the one control:start of the run
StartOnce == env = 0 /\ StartMsg

\* the steps of the loop: the timer and the awaits of processOne
LoopStep ==
  \/ TimerFire
  \/ \E s \in Slots : Select(s)
  \/ \E s \in Slots : Locate(s)
  \/ \E s \in Slots : NotFound(s)
  \/ \E s \in Slots : MarkInflight(s)
  \/ \E s \in Slots : DriverReply(s)
  \/ \E s \in Slots : FailItem(s)
  \/ \E s \in Slots : PutResult(s)
  \/ \E s \in Slots : UpdStatus(s)
  \/ \E s \in Slots : BatchPut(s)
  \/ \E s \in Slots : BatchUpd(s)

\* no pause, retry, tab removal or restart; the fresh queue has no inflight
\* item, so the recovery of handleStart is its query alone
NextProgress ==
  \/ StartOnce
  \/ ReconRead("start")
  \/ StartFinish
  \/ LoopStep

\* every awaited database operation and driver call completes and the
\* timer of setTimeout fires
SpecProgress ==
  Init /\ [][NextProgress]_vars /\ WF_vars(ReconRead("start") \/ StartFinish \/ LoopStep)

\* C34: once the loop is started on the pending items, with no pause and no
\* retry, every item eventually is done or error and the loop has stopped.
C34_Progress ==
  (env = 1) ~> ((\A i \in ItemIds : queue[i].status \in {"done", "error"}) /\ ~running /\ ~processing)

----------------------------------------------------------------------------
(* The loop is never idle while running.                                   *)

\* markResult's db.results.put rejects (the store is full or closed): the
\* exception leaves markResult and processOne, processBatch logs it in its
\* catch clause and clears processing in its finally clause
PutRejects(s) ==
  /\ cyc[s].pc = "put"
  /\ cyc' = [cyc EXCEPT ![s] = IdleCycle]
  /\ processing' = FALSE
  /\ UNCHANGED <<queue, results, running, timer, settings, lockedTarget, rec, retry,
                 nextBatch, crashes, env, pausedMidCycle, page, content>>

NextFaulty ==
  \/ NextProgress
  \/ \E s \in Slots : PutRejects(s)

\* an undisturbed run whose database writes may fail
SpecFaulty == Init /\ [][NextFaulty]_vars

\* C35: whenever running is true, a cycle is processing or a next-cycle
\* timer is pending.
C35_RunningIsScheduled == running => (processing \/ timer = "armed")

----------------------------------------------------------------------------
(* Status against the stored record.                                       *)

\* C36: for every item with a record stored under its own id, status done
\* implies the record's ok is true and status error implies it is false.
C36_StatusAgreesWithRecord ==
  \A i \in ItemIds \cap DOMAIN results :
    /\ queue[i].status = "done" => results[i].ok
    /\ queue[i].status = "error" => ~results[i].ok

----------------------------------------------------------------------------
(* A cycle without a target.                                               *)

\* slot s takes a step of the no-target path: it learns that no target
\* resolves, or writes one of its lastError updates
NoTargetStep(s) == CycleStep(s) /\ (cyc[s].pc = "notfound" \/ cyc'[s].pc = "notfound")

\* C37: a cycle that resolves no target changes no item's status (every
\* selected item stays pending), creates no record and makes no driver call.
C37_NoTargetLeavesItems ==
  [][ \A s \in Slots :
        NoTargetStep(s) =>
          /\ \A i \in ItemIds : queue'[i].status = queue[i].status
          /\ \A k \in 1..Len(cyc[s].items) : queue'[cyc[s].items[k].id].status = "pending"
          /\ results' = results
          /\ cyc'[s].pc \in {"notfound", "idle"}
          /\ cyc'[s].made = 0
          /\ page' = page /\ content' = content ]_vars

\* a cycle has gone all the way through the no-target path
C37_Witness ==
  /\ \A s \in Slots : cyc[s].pc = "idle"
  /\ ~running
  /\ \E i \in ItemIds : queue[i].lastError = "target_tab_not_found" /\ queue[i].status = "pending"

----------------------------------------------------------------------------
(* The balanced-slice scan against the regions of the text.                *)

RECURSIVE OutsideFrom(_, _, _, _)
\* for each position from i on, whether it holds an ordinary character
\* outside string literals: a quote opens a literal, inside it a backslash
\* escapes the next character, the next unescaped quote closes it
OutsideFrom(raw, i, inString, escaped) ==
  IF i > Len(raw) THEN <<>>
  ELSE IF inString
    THEN <<FALSE>> \o OutsideFrom(raw, i + 1, escaped \/ raw[i] # QUOTE,
                                  ~escaped /\ raw[i] = BSLASH)
  ELSE <<raw[i] # QUOTE>> \o OutsideFrom(raw, i + 1, raw[i] = QUOTE, FALSE)

Outside(raw) == OutsideFrom(raw, 1, FALSE, FALSE)

\* opening minus closing brackets outside string literals in raw[a..j]
DepthOver(raw, open, close, a, j) ==
  Cardinality({ k \in a..j : raw[k] = open /\ Outside(raw)[k] })
    - Cardinality({ k \in a..j : raw[k] = close /\ Outside(raw)[k] })

\* raw[a..b] is a balanced open...close region outside string literals
BalancedRegion(raw, open, close, a, b) ==
  /\ a < b
  /\ raw[a] = open /\ Outside(raw)[a]
  /\ raw[b] = close /\ Outside(raw)[b]
  /\ DepthOver(raw, open, close, a, b) = 0
  /\ \A j \in a..(b - 1) : DepthOver(raw, open, close, a, j) > 0

\* the first balanced region of raw, or Null
FirstBalanced(raw, open, close) ==
  IF \E a, b \in 1..Len(raw) : BalancedRegion(raw, open, close, a, b)
    THEN LET a == CHOOSE x \in 1..Len(raw) :
                    /\ \E b \in 1..Len(raw) : BalancedRegion(raw, open, close, x, b)
                    /\ \A y \in 1..(x - 1) :
                         ~\E b \in 1..Len(raw) : BalancedRegion(raw, open, close, y, b)
             b == CHOOSE y \in 1..Len(raw) : BalancedRegion(raw, open, close, a, y)
         IN SubSeq(raw, a, b)
  ELSE Null

\* C38: the balanced-slice scan returns the first balanced [...] or {...}
\* region of the text, brackets inside string literals counting as ordinary
\* characters, and returns a region whenever the text holds one.
C38_SliceIsFirstBalanced ==
  \A s \in Slots :
    HoldsReply(s) =>
      /\ sliceBalanced(cyc[s].reply, "{", "}") = FirstBalanced(cyc[s].reply, "{", "}")
      /\ sliceBalanced(cyc[s].reply, "[", "]") = FirstBalanced(cyc[s].reply, "[", "]")

----------------------------------------------------------------------------
(* The object-list scan against the regions in their order.                *)

\* the index of slice at which the scan of sliceBalanced returns its region
RegionEnd(slice) ==
  CHOOSE e \in 1..Len(slice) :
    /\ sliceBalanced(SubSeq(slice, 1, e), "{", "}") # Null
    /\ \A f \in 1..(e - 1) : sliceBalanced(SubSeq(slice, 1, f), "{", "}") = Null

RECURSIVE RegionsInOrder(_, _)
\* the regions a scan collects that resumes immediately after the end of
\* the region it has found
RegionsInOrder(cleaned, idx) ==
  IF idx > Len(cleaned) \/ sliceBalanced(SliceFrom(cleaned, idx), "{", "}") = Null THEN <<>>
  ELSE <<sliceBalanced(SliceFrom(cleaned, idx), "{", "}")>> \o
       RegionsInOrder(cleaned, idx + RegionEnd(SliceFrom(cleaned, idx)))

\* C39: the object-list scan collects the balanced {...} regions left to
\* right, each scan resuming immediately after the end of the previous
\* region, so that no region of the text is collected twice.
C39_ScanResumesAfterRegion ==
  \A s \in Slots :
    HoldsReply(s) =>
      rawRegionsFrom(unwrapJsonish(cyc[s].reply), 1) = RegionsInOrder(unwrapJsonish(cyc[s].reply), 1)


====
